---------------------------- MODULE Spec2Model ----------------------------
(***************************************************************************)
(* A model of the traversal and search engine of the local file manager:   *)
(* the recursive name / attribute walks, the duplicate scan and the tree   *)
(* renderer, over a small static filesystem.                               *)
(*                                                                         *)
(* Strings are sequences of one-character strings (<<"a", "1">> is "a1"),  *)
(* a Python Optional is the empty sequence (None) or a one-element         *)
(* sequence, and a path is the index of its entry in the variable tree     *)
(* (0 is the start directory).                                             *)
(***************************************************************************)
EXTENDS Integers, Sequences, FiniteSets, TLC

VARIABLES
    rootKind,   \* what the start path is: "dir", "file" or "missing"
    tree,       \* the entries below the start directory, in listing order
    req,        \* the request: the mode and its parameters
    phase,      \* "idle", "walking", "done"
    outcome,    \* "none", "ok", "root_invalid"
    stack,      \* the frames of the recursive walk, innermost first
    results,    \* the result list of the walk (nonlocal results)
    listed,     \* log of directory listing calls (iterdir)
    tested,     \* log of entries handed to the matcher
    raised,     \* TRUE when an exception left the search function
    groups,     \* potential_duplicates of the duplicate scan, in insertion order
    lines,      \* the lines of the tree being rendered
    shown_item_count,   \* the renderer's count of shown items
    outputs,    \* the texts the renders so far have returned
    files_to_check,     \* the batch of files the content search has collected
    futures,    \* the state and result of search_file for each file of the batch
    consumed,   \* how many results the main thread has taken from the pool
    overtook    \* whether a worker has finished before the worker of an earlier file

vars == <<rootKind, tree, req, phase, outcome, stack, results, listed, tested, raised,
          groups, lines, shown_item_count, outputs, files_to_check, futures, consumed,
          overtook>>

searchVars == <<results, listed, tested, raised, groups>>
renderVars == <<lines, shown_item_count, outputs>>
poolVars == <<files_to_check, futures, consumed, overtook>>

-----------------------------------------------------------------------------
(* Bounds of the model *)

NumNodes == 3
MaxResultsBound == 2
MaxDepthBound == 1
DupDirs == 2

-----------------------------------------------------------------------------
(* Python values *)

None == <<>>
Some(v) == <<v>>
IsNone(o) == o = <<>>
Val(o) == o[1]

RECURSIVE SeqToSet(_)
SeqToSet(s) == IF s = <<>> THEN {} ELSE {Head(s)} \cup SeqToSet(Tail(s))

(* str.lower() on one character of the model's alphabet *)
LowerChar(c) ==
    CASE c = "A" -> "a"
      [] c = "B" -> "b"
      [] c = "C" -> "c"
      [] c = "T" -> "t"
      [] c = "X" -> "x"
      [] OTHER -> c

(* LATIN CAPITAL LETTER I WITH DOT ABOVE, the one character str.lower()
   turns into two: i and COMBINING DOT ABOVE *)
DottedI == "u0130"
CombiningDot == "u0307"

(* str.lower() *)
RECURSIVE Lower(_)
Lower(s) ==
    IF s = << >> THEN << >>
    ELSE (IF Head(s) = DottedI THEN <<"i", CombiningDot>> ELSE <<LowerChar(Head(s))>>)
         \o Lower(Tail(s))

(* fnmatch.translate compiled and matched with re.match: the pattern must
   match the whole name; * is any run of characters, ? any one character. *)
RECURSIVE GlobMatch(_, _)
GlobMatch(p, s) ==
    IF p = <<>> THEN s = <<>>
    ELSE IF Head(p) = "*"
         THEN GlobMatch(Tail(p), s) \/ (s # <<>> /\ GlobMatch(p, Tail(s)))
    ELSE IF Head(p) = "?"
         THEN s # <<>> /\ GlobMatch(Tail(p), Tail(s))
    ELSE s # <<>> /\ Head(s) = Head(p) /\ GlobMatch(Tail(p), Tail(s))

-----------------------------------------------------------------------------
(* The filesystem *)

Digit(i) == CASE i = 0 -> "0" [] i = 1 -> "1" [] i = 2 -> "2" [] i = 3 -> "3"
              [] i = 4 -> "4" [] i = 5 -> "5" [] i = 6 -> "6" [] i = 7 -> "7"
              [] i = 8 -> "8" [] OTHER -> "9"

(* str(i) for a natural number *)
RECURSIVE Digits(_)
Digits(i) == IF i < 10 THEN <<Digit(i)>> ELSE Digits(i \div 10) \o <<Digit(i % 10)>>

(* The proper ancestors of entry i of the tree prefix t *)
RECURSIVE AncestorsIn(_, _)
AncestorsIn(t, i) ==
    IF t[i].parent = 0 THEN {}
    ELSE {t[i].parent} \cup AncestorsIn(t, t[i].parent)

(* The directories that can take the next entry when the entries are
   numbered parent-first, each directory's subtree in one run: the start
   directory (0), the last entry if it is a directory, and its ancestors.
   Every ordered tree has exactly one such numbering. *)
OpenDirs(t) ==
    IF t = << >> THEN {0}
    ELSE {0} \cup AncestorsIn(t, Len(t))
             \cup (IF t[Len(t)].kind = "dir" THEN {Len(t)} ELSE {})

(* The entries that may follow the prefix t: a file or a directory in one of
   the open directories.  The entry's name ends in its index, so siblings
   never share a name.  attrs gives the sets the attributes are drawn from:
   first letters of names, file sizes, <<created, modified>> times, file
   contents, and whether directories list. *)
NextEntries(t, attrs) ==
    LET i == Len(t) + 1 IN
    { [parent |-> p, kind |-> "file", name |-> <<l>> \o Digits(i), size |-> Len(tx),
       ctime |-> tm[1], mtime |-> tm[2], text |-> tx, ok |-> ok] :
         p \in OpenDirs(t), l \in attrs.letters, tm \in attrs.times,
         tx \in attrs.texts, ok \in attrs.fileOks }
    \cup
    { [parent |-> p, kind |-> "dir", name |-> <<l>> \o Digits(i), size |-> 0,
       ctime |-> tm[1], mtime |-> tm[2], text |-> << >>, ok |-> ok] :
         p \in OpenDirs(t), l \in attrs.letters, tm \in attrs.times,
         ok \in attrs.oks }

(* The filesystems in acc and those that add up to n entries to one of
   grown, the largest of acc *)
RECURSIVE GrowTrees(_, _, _, _)
GrowTrees(grown, acc, n, attrs) ==
    IF n = 0 \/ grown = {} THEN acc
    ELSE LET larger == UNION { { Append(t, e) : e \in NextEntries(t, attrs) } : t \in grown }
         IN GrowTrees(larger, acc \cup larger, n - 1, attrs)

(* Every filesystem of at most n entries below the start directory *)
Trees(n, attrs) == GrowTrees({<< >>}, {<< >>}, n, attrs)

Nodes == 1..Len(tree)

(* The children of a directory, the last listed first *)
ChildrenBackwards(d) ==
    LET kids == SelectSeq([i \in 1..Len(tree) |-> i], LAMBDA i : tree[i].parent = d)
    IN [k \in 1..Len(kids) |-> kids[Len(kids) + 1 - k]]

(* Path.iterdir() of a listable directory: its children in listing order *)
Children(d) == SelectSeq([i \in 1..Len(tree) |-> i], LAMBDA i : tree[i].parent = d)

(* Path.is_dir() / Path.is_file(), which follow a symbolic link; the links
   of the model point to regular files, whose size they report *)
IsDir(i) == tree[i].kind = "dir"
IsFile(i) == tree[i].kind \in {"file", "symlink"}

(* Whether iterdir() of the directory succeeds; the start directory lists
   whenever it is a directory. *)
Listable(d) == IF d = 0 THEN rootKind = "dir" ELSE tree[d].ok

(* Distance of an entry from the start directory: 0 for its children *)
RECURSIVE Depth(_)
Depth(i) == IF tree[i].parent = 0 THEN 0 ELSE 1 + Depth(tree[i].parent)

(* The proper ancestors of an entry below the start directory *)
Ancestors(i) == AncestorsIn(tree, i)

-----------------------------------------------------------------------------
(* Entry details *)

(* get_file_type *)
get_file_type(i) ==
    IF tree[i].kind = "symlink" THEN "symlink"
    ELSE IF IsDir(i) THEN "directory" ELSE IF IsFile(i) THEN "file" ELSE "unknown"

(* get_file_details: the EntryInfo of an entry.  For a directory it lists the
   directory to count its children; a refused listing leaves an error note. *)
get_file_details(i) ==
    LET ft == get_file_type(i) IN
    [ node       |-> i,
      name       |-> tree[i].name,
      type       |-> ft,
      size       |-> IF ft = "file" THEN Some(tree[i].size) ELSE None,
      created    |-> tree[i].ctime,
      modified   |-> tree[i].mtime,
      item_count |-> IF ft = "directory" /\ tree[i].ok THEN Some(Len(Children(i))) ELSE None,
      error      |-> IF ft = "directory" /\ ~tree[i].ok THEN Some("Permission denied") ELSE None,
      match_context |-> None ]

(* The listing call get_file_details makes for a directory *)
DetailsListing(i) ==
    IF get_file_type(i) = "directory"
    THEN << [dir |-> i, by |-> "details", ok |-> tree[i].ok] >>
    ELSE << >>

-----------------------------------------------------------------------------
(* Matchers *)

(* The glob matched anywhere in the name *)
MatchNameAnywhere(nm) ==
    IF req.case_sensitive
    THEN GlobMatch(<<"*">> \o req.pattern \o <<"*">>, nm)
    ELSE GlobMatch(<<"*">> \o Lower(req.pattern) \o <<"*">>, Lower(nm))

(* search_by_name.match_name: the glob against the whole base name, both
   lower-cased unless case_sensitive *)
match_name(nm) ==
    IF req.case_sensitive
    THEN GlobMatch(req.pattern, nm)
    ELSE GlobMatch(Lower(req.pattern), Lower(nm))

(* Path.suffix: from the last dot on, unless the dot opens or ends the name *)
RECURSIVE LastDot(_, _)
LastDot(nm, k) == IF k = 0 THEN 0 ELSE IF nm[k] = "." THEN k ELSE LastDot(nm, k - 1)

Suffix(nm) ==
    LET k == LastDot(nm, Len(nm)) IN
    IF k > 1 /\ k < Len(nm) THEN SubSeq(nm, k, Len(nm)) ELSE << >>

(* The extension lower-cased, without the leading dot it may lack *)
NormExtensionNoDot(ext) == Lower(ext)

(* The normalized extension allow-list of search_by_attributes *)
NormExtension(ext) ==
    IF ext # << >> /\ Head(ext) = "." THEN Lower(ext) ELSE <<".">> \o Lower(ext)

(* The arguments of the search_by_attributes call: those of the request, or
   the ones find_recent_files passes (modified_after and a doubled cap). *)
AttrArgs ==
    IF req.mode = "recent"
    THEN [ file_type |-> None, min_size |-> None, max_size |-> None,
           created_after |-> None, created_before |-> None,
           modified_after |-> Some(req.now - req.days * req.day),
           modified_before |-> None, extensions |-> None,
           max_depth |-> None, max_results |-> req.max_results * 2 ]
    ELSE [ file_type |-> req.file_type, min_size |-> req.min_size,
           max_size |-> req.max_size,
           created_after |-> req.created_after, created_before |-> req.created_before,
           modified_after |-> req.modified_after, modified_before |-> req.modified_before,
           extensions |-> req.extensions,
           max_depth |-> req.max_depth, max_results |-> req.max_results ]

(* The matcher without its date constraints *)
MatchesWhateverTheDates(i) ==
    LET a == AttrArgs
        path_type == get_file_type(i)
    IN  /\ IsNone(a.file_type) \/ path_type = Val(a.file_type)
        /\ path_type = "file" =>
              /\ IsNone(a.min_size) \/ ~(tree[i].size < Val(a.min_size))
              /\ IsNone(a.max_size) \/ ~(tree[i].size > Val(a.max_size))

(* The matcher with the bounds created_before and modified_before exclusive *)
MatchesBeforeExclusive(i) ==
    LET a == AttrArgs
        path_type == get_file_type(i)
        norm == IF IsNone(a.extensions) THEN {}
                ELSE {NormExtension(e) : e \in Val(a.extensions)}
    IN  /\ IsNone(a.file_type) \/ path_type = Val(a.file_type)
        /\ path_type = "file" =>
              /\ IsNone(a.min_size) \/ ~(tree[i].size < Val(a.min_size))
              /\ IsNone(a.max_size) \/ ~(tree[i].size > Val(a.max_size))
        /\ IsNone(a.created_after) \/ ~(tree[i].ctime < Val(a.created_after))
        /\ IsNone(a.created_before) \/ tree[i].ctime < Val(a.created_before)
        /\ IsNone(a.modified_after) \/ ~(tree[i].mtime < Val(a.modified_after))
        /\ IsNone(a.modified_before) \/ tree[i].mtime < Val(a.modified_before)
        /\ (norm # {} /\ path_type = "file") => Lower(Suffix(tree[i].name)) \in norm

(* search_by_attributes.matches_criteria: every supplied constraint holds *)
matches_criteria(i) ==
    LET a == AttrArgs
        path_type == get_file_type(i)
        norm == IF IsNone(a.extensions) THEN {}
                ELSE {NormExtension(e) : e \in Val(a.extensions)}
    IN  /\ IsNone(a.file_type) \/ path_type = Val(a.file_type)
        /\ path_type = "file" =>
              /\ IsNone(a.min_size) \/ ~(tree[i].size < Val(a.min_size))
              /\ IsNone(a.max_size) \/ ~(tree[i].size > Val(a.max_size))
        /\ IsNone(a.created_after) \/ ~(tree[i].ctime < Val(a.created_after))
        /\ IsNone(a.created_before) \/ ~(tree[i].ctime > Val(a.created_before))
        /\ IsNone(a.modified_after) \/ ~(tree[i].mtime < Val(a.modified_after))
        /\ IsNone(a.modified_before) \/ ~(tree[i].mtime > Val(a.modified_before))
        /\ (norm # {} /\ path_type = "file") => Lower(Suffix(tree[i].name)) \in norm

-----------------------------------------------------------------------------
(* Sorting *)

(* Insert the pair p = <<key, value>> behind every pair whose key is not
   smaller: a stable descending order, as sorted(..., reverse=True) keeps. *)
RECURSIVE InsertDesc(_, _)
InsertDesc(p, sorted) ==
    IF sorted = << >> THEN <<p>>
    ELSE IF Head(sorted)[1] >= p[1]
         THEN <<Head(sorted)>> \o InsertDesc(p, Tail(sorted))
         ELSE <<p>> \o sorted

RECURSIVE SortPairsDesc(_, _)
SortPairsDesc(todo, acc) ==
    IF todo = << >> THEN acc
    ELSE SortPairsDesc(Tail(todo), InsertDesc(Head(todo), acc))

(* sorted(s, key=..., reverse=True), keys[i] being the key of s[i] *)
SortedDesc(s, keys) ==
    LET sorted == SortPairsDesc([i \in 1..Len(s) |-> <<keys[i], s[i]>>], << >>)
    IN  [i \in 1..Len(s) |-> sorted[i][2]]

(* The slice with one item more *)
TakeOneMore(s, n) == SubSeq(s, 1, IF n + 1 < Len(s) THEN n + 1 ELSE Len(s))

(* s[:n] *)
Take(s, n) == SubSeq(s, 1, IF n < Len(s) THEN n ELSE Len(s))

-----------------------------------------------------------------------------
(* The recursive walk of search_by_name and search_by_attributes *)

WalkModes == {"name", "attr", "recent"}

(* The check of exists() alone *)
RootExists == rootKind # "missing"

(* start_dir.exists() and start_dir.is_dir() *)
RootValid == rootKind = "dir"

(* max_depth and max_results of the running walk *)
WalkMaxDepth == IF req.mode = "name" THEN req.max_depth ELSE AttrArgs.max_depth
WalkMaxResults == IF req.mode = "name" THEN req.max_results ELSE AttrArgs.max_results

(* The depth check one level late *)
DepthExceededOneLate(current_depth) ==
    ~IsNone(WalkMaxDepth) /\ current_depth > Val(WalkMaxDepth) + 1

(* if max_depth is not None and current_depth > max_depth: return *)
DepthExceeded(current_depth) ==
    ~IsNone(WalkMaxDepth) /\ current_depth > Val(WalkMaxDepth)

(* if len(results) >= max_results: return *)
CapReached(res) == Len(res) >= WalkMaxResults

(* The matcher of the running walk *)
Matches(i) ==
    IF req.mode = "name" THEN match_name(tree[i].name) ELSE matches_criteria(i)

(* A call that never gets to run *)
FrameNeverRuns(d, depth) == [dir |-> d, depth |-> depth, pc |-> "wait", items |-> << >>]

(* A call search_directory(current_dir, current_depth) about to run *)
Frame(d, depth) == [dir |-> d, depth |-> depth, pc |-> "enter", items |-> << >>]

(* The failed listing caught only by the caller's handler, which ends the
   caller's loop as well *)
CatchListErrorInCaller(stk) ==
    [stack |-> IF Len(stk) >= 2 THEN Tail(Tail(stk)) ELSE << >>, raised |-> Len(stk) < 2]

(* except (PermissionError, OSError): pass -- the failed listing ends the
   call that made it, and its caller goes on with the next sibling.  The
   result is the stack and whether the exception left the search. *)
CatchListError(stk) == [stack |-> Tail(stk), raised |-> FALSE]

top == Head(stack)

(* The validation at the head of every search function, then the first call
   of the walk on the start directory. *)
StartSearch ==
    /\ phase = "idle"
    /\ req.mode # "tree"
    /\ IF RootValid
       THEN /\ phase' = "walking"
            /\ stack' = <<Frame(0, 0)>>
            /\ UNCHANGED outcome
       ELSE /\ phase' = "done"
            /\ outcome' = "root_invalid"
            /\ UNCHANGED stack
    /\ UNCHANGED <<rootKind, tree, req, results, listed, tested, raised, groups>>
    /\ UNCHANGED renderVars
    /\ UNCHANGED poolVars

(* The head of search_directory: the depth check, the cap check, then the
   listing of the directory. *)
EnterDir ==
    /\ phase = "walking"
    /\ req.mode \in WalkModes
    /\ req.impl = "utils"
    /\ stack # << >>
    /\ top.pc = "enter"
    /\ IF DepthExceeded(top.depth) \/ CapReached(results)
       THEN /\ stack' = Tail(stack)
            /\ UNCHANGED <<listed, raised>>
       ELSE /\ listed' = Append(listed, [dir |-> top.dir, by |-> "walk", ok |-> Listable(top.dir)])
            /\ IF Listable(top.dir)
               THEN /\ stack' = <<[top EXCEPT !.pc = "loop", !.items = Children(top.dir)]>>
                                  \o Tail(stack)
                    /\ UNCHANGED raised
               ELSE /\ stack' = CatchListError(stack).stack
                    /\ raised' = CatchListError(stack).raised
    /\ UNCHANGED <<rootKind, tree, req, phase, outcome, results, tested, groups>>
    /\ UNCHANGED renderVars
    /\ UNCHANGED poolVars

(* One iteration of the loop over the directory's items: test the item,
   append its details on a match and return when the cap is reached,
   otherwise recurse into the item if it is a directory. *)
VisitItem ==
    /\ phase = "walking"
    /\ req.mode \in WalkModes
    /\ req.impl = "utils"
    /\ stack # << >>
    /\ top.pc = "loop"
    /\ top.items # << >>
    /\ LET item == Head(top.items)
           rest == [top EXCEPT !.items = Tail(top.items)]
           hit  == Matches(item)
           res  == IF hit THEN Append(results, get_file_details(item)) ELSE results
       IN  /\ tested' = Append(tested, item)
           /\ results' = res
           /\ listed' = IF hit THEN listed \o DetailsListing(item) ELSE listed
           /\ stack' = IF hit /\ CapReached(res)
                          THEN Tail(stack)
                        ELSE IF IsDir(item)
                          THEN <<Frame(item, top.depth + 1), rest>> \o Tail(stack)
                        ELSE <<rest>> \o Tail(stack)
    /\ UNCHANGED <<rootKind, tree, req, phase, outcome, raised, groups>>
    /\ UNCHANGED renderVars
    /\ UNCHANGED poolVars

(* The loop has run out of items: search_directory returns. *)
LeaveDir ==
    /\ phase = "walking"
    /\ req.mode \in WalkModes
    /\ req.impl = "utils"
    /\ stack # << >>
    /\ top.pc = "loop"
    /\ top.items = << >>
    /\ stack' = Tail(stack)
    /\ UNCHANGED <<rootKind, tree, req, phase, outcome, results, listed, tested, raised, groups>>
    /\ UNCHANGED renderVars
    /\ UNCHANGED poolVars

(* find_recent_files after its search_by_attributes call: keep the entries
   whose name matches file_pattern, newest first, at most max_results. *)
RecentResults(res) ==
    LET filtered == SelectSeq(res, LAMBDA r : GlobMatch(req.file_pattern, r.name))
        sorted   == SortedDesc(filtered, [i \in 1..Len(filtered) |-> filtered[i].modified])
    IN  Take(sorted, req.max_results)

(* The walk is over: the search function returns its list. *)
FinishSearch ==
    /\ phase = "walking"
    /\ req.mode \in WalkModes
    /\ req.impl = "utils"
    /\ stack = << >>
    /\ phase' = "done"
    /\ outcome' = IF raised THEN "raised" ELSE "ok"
    /\ results' = IF req.mode = "recent" /\ ~raised THEN RecentResults(results) ELSE results
    /\ UNCHANGED <<rootKind, tree, req, stack, listed, tested, raised, groups>>
    /\ UNCHANGED renderVars
    /\ UNCHANGED poolVars

-----------------------------------------------------------------------------
(* Requests *)

DepthChoices == {None} \cup {Some(d) : d \in 0..MaxDepthBound}
CapChoices == 1..MaxResultsBound

BaseReq ==
    [ mode |-> "name", pattern |-> <<"*">>, case_sensitive |-> FALSE,
      max_depth |-> None, max_results |-> 1,
      file_type |-> None, min_size |-> None, max_size |-> None,
      created_after |-> None, created_before |-> None,
      modified_after |-> None, modified_before |-> None, extensions |-> None,
      days |-> 0, day |-> 1, now |-> 0, file_pattern |-> <<"*">>,
      max_items |-> 1, text |-> << >>, impl |-> "utils" ]

NameReqs ==
    { [BaseReq EXCEPT !.mode = "name", !.pattern = p, !.max_depth = d, !.max_results = n] :
        p \in {<<"b", "*">>}, d \in DepthChoices, n \in CapChoices }

AttrReqs ==
    { [BaseReq EXCEPT !.mode = "attr", !.file_type = ft, !.max_depth = d, !.max_results = n] :
        ft \in {Some("file")}, d \in {None}, n \in CapChoices }

RecentReqs ==
    { [BaseReq EXCEPT !.mode = "recent", !.file_pattern = p, !.days = 1, !.now = 2,
                      !.max_results = n] :
        p \in {<<"a", "*">>}, n \in CapChoices }

WalkAttrs ==
    [ letters |-> {"a", "B"}, times |-> {<<1, 1>>},
      texts |-> {<<"x">>}, oks |-> BOOLEAN, fileOks |-> {TRUE} ]

InitWalk ==
    /\ rootKind = "dir"
    /\ tree \in Trees(NumNodes, WalkAttrs)
    /\ req \in NameReqs \cup AttrReqs \cup RecentReqs \cup {[BaseReq EXCEPT !.mode = "dup"]}
    /\ phase = "idle"
    /\ outcome = "none"
    /\ stack = << >>
    /\ results = << >>
    /\ listed = << >>
    /\ tested = << >>
    /\ raised = FALSE
    /\ groups = << >>
    /\ lines = << >>
    /\ shown_item_count = 0
    /\ outputs = << >>
    /\ files_to_check = << >>
    /\ futures = << >>
    /\ consumed = 0
    /\ overtook = FALSE


-----------------------------------------------------------------------------
(* The duplicate scan of find_duplicate_files *)

(* except (PermissionError, OSError): pass in scan_directory *)
CatchScanError(stk) == [stack |-> Tail(stk), raised |-> FALSE]

(* The key without the size *)
DupKeyNameOnly(i) == <<tree[i].name, 0>>

(* key = (item.name, item.stat().st_size) *)
DupKey(i) == <<tree[i].name, tree[i].size>>

(* potential_duplicates[key].append(str(item)), the key entered first if new *)
AddToGroups(g, i) ==
    IF \E k \in 1..Len(g) : g[k].key = DupKey(i)
    THEN [k \in 1..Len(g) |->
            IF g[k].key = DupKey(i)
            THEN [g[k] EXCEPT !.paths = Append(g[k].paths, i)]
            ELSE g[k]]
    ELSE Append(g, [key |-> DupKey(i), paths |-> <<i>>])

(* The head of scan_directory: the listing of the directory *)
ScanEnter ==
    /\ phase = "walking"
    /\ req.mode = "dup"
    /\ stack # << >>
    /\ top.pc = "enter"
    /\ listed' = Append(listed, [dir |-> top.dir, by |-> "walk", ok |-> Listable(top.dir)])
    /\ IF Listable(top.dir)
       THEN /\ stack' = <<[top EXCEPT !.pc = "loop", !.items = Children(top.dir)]>>
                          \o Tail(stack)
            /\ UNCHANGED raised
       ELSE /\ stack' = CatchScanError(stack).stack
            /\ raised' = CatchScanError(stack).raised
    /\ UNCHANGED <<rootKind, tree, req, phase, outcome, results, tested, groups>>
    /\ UNCHANGED renderVars
    /\ UNCHANGED poolVars

(* One iteration of the loop of scan_directory: a file is filed under its
   key, a directory is scanned in turn. *)
ScanItem ==
    /\ phase = "walking"
    /\ req.mode = "dup"
    /\ stack # << >>
    /\ top.pc = "loop"
    /\ top.items # << >>
    /\ LET item == Head(top.items)
           rest == [top EXCEPT !.items = Tail(top.items)]
       IN  /\ tested' = Append(tested, item)
           /\ groups' = IF IsFile(item) THEN AddToGroups(groups, item) ELSE groups
           /\ stack' = IF ~IsFile(item) /\ IsDir(item)
                          THEN <<Frame(item, top.depth + 1), rest>> \o Tail(stack)
                        ELSE <<rest>> \o Tail(stack)
    /\ UNCHANGED <<rootKind, tree, req, phase, outcome, results, listed, raised>>
    /\ UNCHANGED renderVars
    /\ UNCHANGED poolVars

(* The loop has run out of items: scan_directory returns. *)
ScanLeave ==
    /\ phase = "walking"
    /\ req.mode = "dup"
    /\ stack # << >>
    /\ top.pc = "loop"
    /\ top.items = << >>
    /\ stack' = Tail(stack)
    /\ UNCHANGED <<rootKind, tree, req, phase, outcome, results, listed, tested, raised,
                   groups>>
    /\ UNCHANGED renderVars
    /\ UNCHANGED poolVars

(* The groups in result format, single files not filtered out *)
ResultGroupsUnfiltered(g) ==
    [k \in 1..Len(g) |->
        [name |-> g[k].key[1], size |-> g[k].key[2],
         count |-> Len(g[k].paths), paths |-> g[k].paths]]

(* The groups of more than one file, in result format *)
ResultGroups(g) ==
    LET dups == SelectSeq(g, LAMBDA x : Len(x.paths) > 1)
    IN  [k \in 1..Len(dups) |->
            [name |-> dups[k].key[1], size |-> dups[k].key[2],
             count |-> Len(dups[k].paths), paths |-> dups[k].paths]]

(* The groups cut to max_results before the sorting *)
CutThenSortGroups(rg, max_results) ==
    LET cut == Take(rg, max_results)
    IN  SortedDesc(cut, [k \in 1..Len(cut) |-> cut[k].count])

(* sorted(result_groups, key=count, reverse=True)[:max_results] *)
SortedGroups(rg, max_results) ==
    Take(SortedDesc(rg, [k \in 1..Len(rg) |-> rg[k].count]), max_results)

(* The scan is over: filter, sort and cut the groups, and return them. *)
FinishDuplicates ==
    /\ phase = "walking"
    /\ req.mode = "dup"
    /\ stack = << >>
    /\ phase' = "done"
    /\ outcome' = IF raised THEN "raised" ELSE "ok"
    /\ results' = IF raised THEN results
                  ELSE SortedGroups(ResultGroups(groups), req.max_results)
    /\ UNCHANGED <<rootKind, tree, req, stack, listed, tested, raised, groups>>
    /\ UNCHANGED renderVars
    /\ UNCHANGED poolVars

(* The filesystems of the duplicate scan, where files of different
   directories share names.  A directory lists its files first, named by
   the first names of DupNames, then its subdirectories; there are at most
   maxDirs subdirectories in all, and any of them may refuse to list. *)
DupNames == <<"a", "b">>
DupSizes(k) == IF k = 1 THEN {1, 2} ELSE {1}

DupNextEntries(t, maxDirs) ==
    LET i == Len(t) + 1
        kids(p) == {j \in 1..Len(t) : t[j].parent = p}
        nDirs == Cardinality({j \in 1..Len(t) : t[j].kind = "dir"})
        fileOk(p, k) ==
            /\ Cardinality(kids(p)) = k - 1
            /\ \A j \in kids(p) :
                  /\ t[j].kind = "file"
                  /\ \E m \in 1..(k - 1) : t[j].name = <<DupNames[m]>>
        fileChoices ==
            { c \in OpenDirs(t) \X (1..Len(DupNames)) \X {1, 2} :
                fileOk(c[1], c[2]) /\ c[3] \in DupSizes(c[2]) }
    IN
    { [parent |-> c[1], kind |-> "file", name |-> <<DupNames[c[2]]>>, size |-> c[3],
       ctime |-> 1, mtime |-> 1, text |-> [k \in 1..c[3] |-> "x"], ok |-> TRUE] :
         c \in fileChoices }
    \cup
    (IF nDirs < maxDirs
     THEN { [parent |-> p, kind |-> "dir", name |-> <<"d">> \o Digits(i), size |-> 0,
             ctime |-> 1, mtime |-> 1, text |-> << >>, ok |-> ok] :
               p \in OpenDirs(t), ok \in BOOLEAN }
     ELSE {})

RECURSIVE GrowDupTrees(_, _, _)
GrowDupTrees(grown, acc, maxDirs) ==
    IF grown = {} THEN acc
    ELSE LET larger == UNION { { Append(t, e) : e \in DupNextEntries(t, maxDirs) } : t \in grown }
         IN GrowDupTrees(larger, acc \cup larger, maxDirs)

(* Every such filesystem of at most maxDirs directories below the start
   directory *)
DupTrees(maxDirs) == GrowDupTrees({<< >>}, {<< >>}, maxDirs)

DupReqs ==
    { [BaseReq EXCEPT !.mode = "dup", !.max_results = n] : n \in CapChoices }

InitDup ==
    /\ rootKind = "dir"
    /\ tree \in DupTrees(DupDirs)
    /\ req \in DupReqs
    /\ phase = "idle"
    /\ outcome = "none"
    /\ stack = << >>
    /\ results = << >>
    /\ listed = << >>
    /\ tested = << >>
    /\ raised = FALSE
    /\ groups = << >>
    /\ lines = << >>
    /\ shown_item_count = 0
    /\ outputs = << >>
    /\ files_to_check = << >>
    /\ futures = << >>
    /\ consumed = 0
    /\ overtook = FALSE

NextWalk ==
    \/ StartSearch
    \/ EnterDir \/ VisitItem \/ LeaveDir \/ FinishSearch
    \/ ScanEnter \/ ScanItem \/ ScanLeave \/ FinishDuplicates

SpecWalk == InitWalk /\ [][NextWalk]_vars

NextDup == StartSearch \/ ScanEnter \/ ScanItem \/ ScanLeave \/ FinishDuplicates

SpecDup == InitDup /\ [][NextDup]_vars

-----------------------------------------------------------------------------
(* The content search of search_by_content *)

(* s[a:b] for 0 <= a and 0 <= b *)
Slice(s, a, b) ==
    LET e == IF b > Len(s) THEN Len(s) ELSE b
    IN IF a >= e THEN << >> ELSE SubSeq(s, a + 1, e)

(* s.find(sub): the least 0-based index where sub occurs in s, or -1 *)
Find(s, sub) ==
    LET hits == {k \in 0..(Len(s) - Len(sub)) : Slice(s, k, k + Len(sub)) = sub}
    IN IF hits = {} THEN -1 ELSE CHOOSE k \in hits : \A m \in hits : k <= m

(* The byte that is no valid text, and the character it decodes to *)
BadByte == "xFF"
ReplacementChar == "uFFFD"

(* read_text(errors='replace'): every byte that does not decode becomes the
   replacement character *)
read_text(i) ==
    [k \in 1..Len(tree[i].text) |->
        IF tree[i].text[k] = BadByte THEN ReplacementChar ELSE tree[i].text[k]]

(* The characters kept on each side of the match *)
ContextChars == 40

(* The batch of collect_files holds max_results times this many files *)
BatchFactor == 10

(* search_func: search_text in content, both lower-cased unless the search is
   case sensitive *)
search_func(content) ==
    IF req.case_sensitive
    THEN Find(content, req.text) >= 0
    ELSE Find(Lower(content), Lower(req.text)) >= 0

(* The window of content around the first match *)
MatchContext(content) ==
    LET search_text == IF req.case_sensitive THEN req.text ELSE Lower(req.text)
        index == IF req.case_sensitive THEN Find(content, search_text)
                 ELSE Find(Lower(content), Lower(search_text))
        start == IF index - ContextChars > 0 THEN index - ContextChars ELSE 0
        end == IF index + Len(search_text) + ContextChars < Len(content)
               THEN index + Len(search_text) + ContextChars ELSE Len(content)
    IN Slice(content, start, end)

(* search_file: None unless the file is small enough, its name matches
   file_pattern, it can be read and its text holds the search text *)
search_file(i) ==
    IF ~IsFile(i) THEN None
    ELSE IF tree[i].size > Val(req.max_size) THEN None
    ELSE IF ~GlobMatch(req.file_pattern, tree[i].name) THEN None
    ELSE IF ~tree[i].ok THEN None
    ELSE LET content == read_text(i) IN
         IF search_func(content)
         THEN Some([get_file_details(i) EXCEPT !.match_context = Some(MatchContext(content))])
         ELSE None

(* d.startswith('.') *)
StartsWithDot(nm) == nm # << >> /\ nm[1] = "."

RECURSIVE SelectSeqBy(_, _)
SelectSeqBy(s, keep) ==
    IF s = << >> THEN << >>
    ELSE (IF Head(s) \in keep THEN <<Head(s)>> ELSE << >>) \o SelectSeqBy(Tail(s), keep)

(* The files of one directory joining the batch twice each *)
RECURSIVE AddFilesTwice(_, _)
AddFilesTwice(batch, files) ==
    IF files = << >> THEN batch
    ELSE AddFilesTwice(batch \o <<Head(files), Head(files)>>, Tail(files))

(* The inner loop of collect_files: the files of one directory join the
   batch until it is full *)
RECURSIVE AddFiles(_, _)
AddFiles(batch, files) ==
    IF files = << >> THEN batch
    ELSE IF Len(batch) >= req.max_results * BatchFactor THEN batch
    ELSE AddFiles(Append(batch, Head(files)), Tail(files))

(* One step of os.walk in collect_files: the walk lists the next directory,
   its files join the batch and its subdirectories that are not hidden are
   walked next, before the directories still waiting.  os.walk passes over
   a directory whose listing is refused. *)
CollectDir ==
    /\ phase = "walking"
    /\ req.mode = "content"
    /\ req.impl = "utils"
    /\ stack # << >>
    /\ listed' = Append(listed, [dir |-> top.dir, by |-> "oswalk", ok |-> Listable(top.dir)])
    /\ IF Listable(top.dir)
         THEN LET kids == Children(top.dir)
                  files == SelectSeqBy(kids, {i \in Nodes : ~IsDir(i)})
                  dirs == SelectSeqBy(kids, {i \in Nodes : IsDir(i) /\ ~StartsWithDot(tree[i].name)})
              IN /\ files_to_check' = AddFiles(files_to_check, files)
                 /\ stack' = [k \in 1..Len(dirs) |-> Frame(dirs[k], top.depth + 1)] \o Tail(stack)
         ELSE /\ stack' = Tail(stack)
              /\ UNCHANGED files_to_check
    /\ UNCHANGED <<rootKind, tree, req, phase, outcome, results, tested, raised, groups>>
    /\ UNCHANGED <<futures, consumed, overtook>>
    /\ UNCHANGED renderVars

(* executor.map(search_file, files_to_check): every file is submitted to the
   pool at once. *)
StartPool ==
    /\ phase = "walking"
    /\ req.mode = "content"
    /\ req.impl = "utils"
    /\ stack = << >>
    /\ phase' = "pool"
    /\ futures' = [k \in 1..Len(files_to_check) |-> [state |-> "pending", result |-> None]]
    /\ UNCHANGED <<rootKind, tree, req, outcome, stack, files_to_check, consumed, overtook>>
    /\ UNCHANGED searchVars
    /\ UNCHANGED renderVars

(* The log of the files tested with one more file.  The workers test their
   files at the same time, and the log keeps them by index. *)
LogByIndex(log, i) ==
    SelectSeq(log, LAMBDA x : x < i) \o <<i>> \o SelectSeq(log, LAMBDA x : x >= i)

(* A worker thread runs search_file on a file of the batch.  The workers take
   the files concurrently, so that the files finish in any order; a file a
   worker had in hand when the main thread left the loop is finished too. *)
RunTask ==
    /\ phase \in {"pool", "shutdown"}
    /\ \E k \in 1..Len(futures) :
         /\ futures[k].state = "pending"
         /\ futures' = [futures EXCEPT ![k] = [state |-> "done",
                                               result |-> search_file(files_to_check[k])]]
         /\ tested' = LogByIndex(tested, files_to_check[k])
         /\ overtook' = (overtook \/ \E j \in 1..(k - 1) : futures[j].state = "pending")
    /\ UNCHANGED <<rootKind, tree, req, phase, outcome, stack, results, listed, raised, groups>>
    /\ UNCHANGED <<files_to_check, consumed>>
    /\ UNCHANGED renderVars

(* The results handed out as the workers complete them *)
ReadyResultsAsCompleted == {k \in 1..Len(futures) : futures[k].state = "done"}

(* The result executor.map hands to the loop next: that of the next file of
   the batch, once its worker is done *)
ReadyResults ==
    IF consumed < Len(futures) /\ futures[consumed + 1].state = "done"
    THEN {consumed + 1} ELSE {}

(* One iteration of the loop of the main thread over the results, which come
   in the order of the batch: a result joins the list while it has room, and
   the full list ends the loop. *)
ConsumeResult ==
    /\ phase = "pool"
    /\ consumed < Len(futures)
    /\ \E k \in ReadyResults :
         LET result == futures[k].result
             res == IF ~IsNone(result) /\ Len(results) < req.max_results
                    THEN Append(results, Val(result)) ELSE results
         IN /\ results' = res
            /\ consumed' = consumed + 1
            /\ phase' = IF Len(res) >= req.max_results THEN "shutdown" ELSE "pool"
    /\ UNCHANGED <<rootKind, tree, req, outcome, stack, listed, tested, raised, groups>>
    /\ UNCHANGED <<files_to_check, futures, overtook>>
    /\ UNCHANGED renderVars

(* The loop is over: the pool shuts down, the files no worker has taken are
   cancelled, and search_by_content returns its list. *)
FinishContent ==
    /\ \/ phase = "shutdown"
       \/ phase = "pool" /\ consumed = Len(futures)
    /\ phase' = "done"
    /\ outcome' = "ok"
    /\ futures' = [k \in 1..Len(futures) |->
                     IF futures[k].state = "pending"
                     THEN [futures[k] EXCEPT !.state = "cancelled"] ELSE futures[k]]
    /\ UNCHANGED <<rootKind, tree, req, stack, files_to_check, consumed, overtook>>
    /\ UNCHANGED searchVars
    /\ UNCHANGED renderVars

(* The content search of the REST route and of the tool handler, which run
   the same check_file over os.walk in the thread of the request *)

Newline == "\n"

(* str.replace("\n", " ") *)
ReplaceNewlines(s) == [k \in 1..Len(s) |-> IF s[k] = Newline THEN " " ELSE s[k]]

(* check_file: the file joins the results when it is small enough, its name
   matches file_pattern, it can be read and its text holds the search text;
   the window around the first match loses its newlines. *)
check_file(i) ==
    IF tree[i].size > Val(req.max_size) THEN None
    ELSE IF ~GlobMatch(req.file_pattern, tree[i].name) THEN None
    ELSE IF ~tree[i].ok THEN None
    ELSE LET content == read_text(i)
             search_text == IF req.case_sensitive THEN req.text ELSE Lower(req.text)
             searched == IF req.case_sensitive THEN content ELSE Lower(content)
             index == Find(searched, search_text)
             start_idx == IF index - ContextChars > 0 THEN index - ContextChars ELSE 0
             end_idx == IF index + Len(search_text) + ContextChars < Len(content)
                        THEN index + Len(search_text) + ContextChars ELSE Len(content)
             context == ReplaceNewlines(Slice(content, start_idx, end_idx))
         IN IF index >= 0
            THEN Some([get_file_details(i) EXCEPT !.match_context = Some(context)])
            ELSE None

(* The inner loop of the route over the files of one directory: it ends when
   the results are full.  The value is the results and the files checked. *)
RECURSIVE CheckFiles(_, _)
CheckFiles(acc, files) ==
    IF files = << >> \/ Len(acc.results) >= req.max_results THEN acc
    ELSE LET found == check_file(Head(files))
         IN CheckFiles([results |-> IF IsNone(found) THEN acc.results
                                    ELSE Append(acc.results, Val(found)),
                        tested |-> Append(acc.tested, Head(files))],
                       Tail(files))

(* One iteration of the loop over os.walk(start_path): the walk lists the
   next directory, the loop checks its files, and the walk goes on with
   its subdirectories, hidden ones too, before the directories waiting. *)
RouteWalkDir ==
    /\ phase = "walking"
    /\ req.mode = "content"
    /\ req.impl = "route"
    /\ stack # << >>
    /\ Len(results) < req.max_results
    /\ listed' = Append(listed, [dir |-> top.dir, by |-> "oswalk", ok |-> Listable(top.dir)])
    /\ IF Listable(top.dir)
         THEN LET kids == Children(top.dir)
                  files == SelectSeqBy(kids, {i \in Nodes : ~IsDir(i)})
                  dirs == SelectSeqBy(kids, {i \in Nodes : IsDir(i)})
                  checked == CheckFiles([results |-> results, tested |-> tested], files)
              IN /\ results' = checked.results
                 /\ tested' = checked.tested
                 /\ stack' = [k \in 1..Len(dirs) |-> Frame(dirs[k], top.depth + 1)] \o Tail(stack)
         ELSE /\ stack' = Tail(stack)
              /\ UNCHANGED <<results, tested>>
    /\ UNCHANGED <<rootKind, tree, req, phase, outcome, raised, groups>>
    /\ UNCHANGED poolVars
    /\ UNCHANGED renderVars

(* The loop over os.walk ends, with the walk or with the full results, and
   the route answers with its list. *)
RouteFinish ==
    /\ phase = "walking"
    /\ req.mode = "content"
    /\ req.impl = "route"
    /\ stack = << >> \/ Len(results) >= req.max_results
    /\ phase' = "done"
    /\ outcome' = "ok"
    /\ UNCHANGED <<rootKind, tree, req, stack>>
    /\ UNCHANGED searchVars
    /\ UNCHANGED poolVars
    /\ UNCHANGED renderVars

RootNodes == 2

ContentReqs ==
    { [BaseReq EXCEPT !.mode = "content", !.text = <<"a", "b">>, !.case_sensitive = cs,
                      !.file_pattern = <<"a", "*">>, !.max_size = Some(2),
                      !.max_results = n] :
        cs \in BOOLEAN, n \in CapChoices }

RootAttrs ==
    [ letters |-> {"a", "B"}, times |-> {<<1, 1>>},
      texts |-> {<<"a", "B">>, <<"b">>}, oks |-> BOOLEAN, fileOks |-> BOOLEAN ]

(* Every search function over a start path that is a directory, a file or
   nothing at all; only a directory has entries below it. *)
InitRoot ==
    /\ rootKind \in {"dir", "file", "missing"}
    /\ tree \in IF rootKind = "dir" THEN Trees(RootNodes, RootAttrs) ELSE {<< >>}
    /\ req \in NameReqs \cup AttrReqs \cup RecentReqs \cup DupReqs \cup ContentReqs
    /\ phase = "idle"
    /\ outcome = "none"
    /\ stack = << >>
    /\ results = << >>
    /\ listed = << >>
    /\ tested = << >>
    /\ raised = FALSE
    /\ groups = << >>
    /\ lines = << >>
    /\ shown_item_count = 0
    /\ outputs = << >>
    /\ files_to_check = << >>
    /\ futures = << >>
    /\ consumed = 0
    /\ overtook = FALSE

NextRoot ==
    \/ StartSearch
    \/ EnterDir \/ VisitItem \/ LeaveDir \/ FinishSearch
    \/ ScanEnter \/ ScanItem \/ ScanLeave \/ FinishDuplicates
    \/ CollectDir \/ StartPool \/ RunTask \/ ConsumeResult \/ FinishContent

SpecRoot == InitRoot /\ [][NextRoot]_vars

-----------------------------------------------------------------------------
(* The content search over files whose text is longer than the context
   window, holds a newline, does not decode, or grows when lower-cased *)

ContentNodes == 2

RECURSIVE Rep(_, _)
Rep(c, n) == IF n = 0 THEN << >> ELSE <<c>> \o Rep(c, n - 1)

(* The match with more than ContextChars characters on both sides *)
LongText == Rep("x", ContextChars + 1) \o <<"a", "B">> \o Rep("y", ContextChars + 1)

(* The match between two newlines *)
NewlineText == <<"x", Newline, "a", "b", Newline, "y">>

(* Bytes that are no valid text, followed by the match *)
UndecodableText == <<BadByte, "a", "b">>

(* The match after more than ContextChars characters that lower() doubles *)
DottedText == Rep(DottedI, ContextChars + 1) \o <<"a", "b">>

ContentAttrs ==
    [ letters |-> {"a"}, times |-> {<<1, 1>>},
      texts |-> {LongText, NewlineText, UndecodableText, DottedText, <<"x">>},
      oks |-> {TRUE}, fileOks |-> {TRUE} ]

(* search_by_content(text="ab") of the utility function and of the route,
   with the default file_pattern and max_size *)
TextReqs ==
    { [BaseReq EXCEPT !.mode = "content", !.text = <<"a", "b">>, !.case_sensitive = cs,
                      !.file_pattern = <<"*">>, !.max_size = Some(10 * 1024 * 1024),
                      !.max_results = 100, !.impl = impl] :
        cs \in BOOLEAN, impl \in {"utils", "route"} }

InitContent ==
    /\ rootKind = "dir"
    /\ tree \in Trees(ContentNodes, ContentAttrs)
    /\ req \in TextReqs
    /\ phase = "idle"
    /\ outcome = "none"
    /\ stack = << >>
    /\ results = << >>
    /\ listed = << >>
    /\ tested = << >>
    /\ raised = FALSE
    /\ groups = << >>
    /\ lines = << >>
    /\ shown_item_count = 0
    /\ outputs = << >>
    /\ files_to_check = << >>
    /\ futures = << >>
    /\ consumed = 0
    /\ overtook = FALSE

NextContent ==
    \/ StartSearch
    \/ CollectDir \/ StartPool \/ RunTask \/ ConsumeResult \/ FinishContent
    \/ RouteWalkDir \/ RouteFinish

SpecContent == InitContent /\ [][NextContent]_vars

-----------------------------------------------------------------------------
(* The content search over a start directory of many files *)

WideFiles == 11

(* The start directory with n files, the last of which holds the searched
   text if lastMatches, and with a last entry that is nothing, the directory
   d or the hidden directory .h, holding one file with the searched text *)
WideTree(n, lastMatches, last) ==
    [k \in 1..n |->
        [parent |-> 0, kind |-> "file", name |-> <<"f">> \o Digits(k),
         size |-> IF k = n /\ lastMatches THEN 2 ELSE 1, ctime |-> 1, mtime |-> 1,
         text |-> IF k = n /\ lastMatches THEN <<"a", "b">> ELSE <<"x">>, ok |-> TRUE]]
    \o (IF last = "none" THEN << >>
        ELSE << [parent |-> 0, kind |-> "dir",
                 name |-> IF last = "hidden" THEN <<".", "h">> ELSE <<"d">>,
                 size |-> 0, ctime |-> 1, mtime |-> 1, text |-> << >>, ok |-> TRUE],
                [parent |-> n + 1, kind |-> "file", name |-> <<"g">>,
                 size |-> 2, ctime |-> 1, mtime |-> 1, text |-> <<"a", "b">>, ok |-> TRUE] >>)

WideTrees ==
    { WideTree(n, m, last) :
        n \in 0..WideFiles, m \in BOOLEAN, last \in {"none", "dir", "hidden"} }

(* search_by_content(text="ab", max_results=1) of the utility function *)
BatchReqs ==
    { [BaseReq EXCEPT !.mode = "content", !.text = <<"a", "b">>, !.case_sensitive = TRUE,
                      !.file_pattern = <<"*">>, !.max_size = Some(10 * 1024 * 1024),
                      !.max_results = 1] }

InitBatch ==
    /\ rootKind = "dir"
    /\ tree \in WideTrees
    /\ req \in BatchReqs
    /\ phase = "idle"
    /\ outcome = "none"
    /\ stack = << >>
    /\ results = << >>
    /\ listed = << >>
    /\ tested = << >>
    /\ raised = FALSE
    /\ groups = << >>
    /\ lines = << >>
    /\ shown_item_count = 0
    /\ outputs = << >>
    /\ files_to_check = << >>
    /\ futures = << >>
    /\ consumed = 0
    /\ overtook = FALSE

NextBatch ==
    StartSearch \/ CollectDir \/ StartPool \/ RunTask \/ ConsumeResult \/ FinishContent

SpecBatch == InitBatch /\ [][NextBatch]_vars

-----------------------------------------------------------------------------
(* The recent-files search of the REST route and of the tool handler, which
   run the same scan_for_recent_files, and the searches by days *)

(* cutoff_date = datetime.now() - timedelta(days=days) *)
cutoff_date == req.now - req.days * req.day

(* The head of scan_for_recent_files: the cap check, then the listing of the
   directory; a listing that fails ends the call. *)
ScanRecentEnter ==
    /\ phase = "walking"
    /\ req.mode = "recent"
    /\ req.impl = "route"
    /\ stack # << >>
    /\ top.pc = "enter"
    /\ IF Len(results) >= req.max_results
       THEN /\ stack' = Tail(stack)
            /\ UNCHANGED listed
       ELSE /\ listed' = Append(listed, [dir |-> top.dir, by |-> "scan", ok |-> Listable(top.dir)])
            /\ stack' = IF Listable(top.dir)
                         THEN <<[top EXCEPT !.pc = "loop", !.items = Children(top.dir)]>>
                                \o Tail(stack)
                         ELSE Tail(stack)
    /\ UNCHANGED <<rootKind, tree, req, phase, outcome, results, tested, raised, groups>>
    /\ UNCHANGED renderVars
    /\ UNCHANGED poolVars

(* One iteration of the loop of scan_for_recent_files: a file whose name
   matches file_pattern and that is not older than the cutoff joins the
   results, and the call returns when they are full; a directory is scanned
   in turn. *)
ScanRecentItem ==
    /\ phase = "walking"
    /\ req.mode = "recent"
    /\ req.impl = "route"
    /\ stack # << >>
    /\ top.pc = "loop"
    /\ top.items # << >>
    /\ LET item == Head(top.items)
           rest == [top EXCEPT !.items = Tail(top.items)]
           hit  == /\ IsFile(item)
                   /\ GlobMatch(req.file_pattern, tree[item].name)
                   /\ tree[item].mtime >= cutoff_date
           res  == IF hit THEN Append(results, get_file_details(item)) ELSE results
       IN  /\ tested' = Append(tested, item)
           /\ results' = res
           /\ stack' = IF hit /\ Len(res) >= req.max_results
                          THEN Tail(stack)
                        ELSE IF IsDir(item)
                          THEN <<Frame(item, top.depth + 1), rest>> \o Tail(stack)
                        ELSE <<rest>> \o Tail(stack)
    /\ UNCHANGED <<rootKind, tree, req, phase, outcome, listed, raised, groups>>
    /\ UNCHANGED renderVars
    /\ UNCHANGED poolVars

(* The loop has run out of items: scan_for_recent_files returns. *)
ScanRecentLeave ==
    /\ phase = "walking"
    /\ req.mode = "recent"
    /\ req.impl = "route"
    /\ stack # << >>
    /\ top.pc = "loop"
    /\ top.items = << >>
    /\ stack' = Tail(stack)
    /\ UNCHANGED <<rootKind, tree, req, phase, outcome>>
    /\ UNCHANGED searchVars
    /\ UNCHANGED renderVars
    /\ UNCHANGED poolVars

(* The scan is over: results.sort(key=modified, reverse=True), and the route
   answers with the list. *)
ScanRecentFinish ==
    /\ phase = "walking"
    /\ req.mode = "recent"
    /\ req.impl = "route"
    /\ stack = << >>
    /\ phase' = "done"
    /\ outcome' = "ok"
    /\ results' = SortedDesc(results, [i \in 1..Len(results) |-> results[i].modified])
    /\ UNCHANGED <<rootKind, tree, req, stack, listed, tested, raised, groups>>
    /\ UNCHANGED renderVars
    /\ UNCHANGED poolVars

RecentNodes == 3

(* The entries that may follow the prefix t.  The call is made at time 4 and
   a day lasts 3: a file was modified a day before the call (1), a moment
   before it (3) or at the instant of the call (4); a directory was modified
   at the instant of the call. *)
RecentNextEntries(t) ==
    LET i == Len(t) + 1 IN
    { [parent |-> p, kind |-> "file", name |-> <<c[1]>> \o Digits(i), size |-> 1,
       ctime |-> 1, mtime |-> c[2], text |-> <<"x">>, ok |-> TRUE] :
         p \in OpenDirs(t), c \in {<<"a", 1>>, <<"a", 3>>, <<"a", 4>>, <<"b", 4>>} }
    \cup
    { [parent |-> p, kind |-> "dir", name |-> <<"a">> \o Digits(i), size |-> 0,
       ctime |-> 1, mtime |-> 4, text |-> << >>, ok |-> TRUE] :
         p \in OpenDirs(t) }

RECURSIVE GrowRecentTrees(_, _, _)
GrowRecentTrees(grown, acc, n) ==
    IF n = 0 \/ grown = {} THEN acc
    ELSE LET larger == UNION { { Append(t, e) : e \in RecentNextEntries(t) } : t \in grown }
         IN GrowRecentTrees(larger, acc \cup larger, n - 1)

RecentTrees(n) == GrowRecentTrees({<< >>}, {<< >>}, n)

(* find_recent_files(days, file_pattern="a*", max_results) of the utility
   function and of the route *)
DaysReqs ==
    { [BaseReq EXCEPT !.mode = "recent", !.file_pattern = <<"a", "*">>, !.days = d,
                      !.now = 4, !.day = 3, !.max_results = n, !.impl = impl] :
        d \in {0, 1}, n \in CapChoices, impl \in {"utils", "route"} }

InitRecent ==
    /\ rootKind = "dir"
    /\ tree \in RecentTrees(RecentNodes)
    /\ req \in DaysReqs
    /\ phase = "idle"
    /\ outcome = "none"
    /\ stack = << >>
    /\ results = << >>
    /\ listed = << >>
    /\ tested = << >>
    /\ raised = FALSE
    /\ groups = << >>
    /\ lines = << >>
    /\ shown_item_count = 0
    /\ outputs = << >>
    /\ files_to_check = << >>
    /\ futures = << >>
    /\ consumed = 0
    /\ overtook = FALSE

NextRecent ==
    \/ StartSearch
    \/ EnterDir \/ VisitItem \/ LeaveDir \/ FinishSearch
    \/ ScanRecentEnter \/ ScanRecentItem \/ ScanRecentLeave \/ ScanRecentFinish

SpecRecent == InitRecent /\ [][NextRecent]_vars

-----------------------------------------------------------------------------
(* Searches by attributes with every constraint supplied or absent *)

AttrNodes == 2

(* The entries a directory may hold: the file a.txt of 1 byte created at 1
   and modified at 2, the file b.MD of 2 bytes created at 2 and modified at
   3, the empty file c created at 3 and modified at 1, and the directory
   d.txt created and modified at 2 *)
AttrChoices ==
    { [kind |-> "file", name |-> <<"a", ".", "t", "x", "t">>, size |-> 1, ctime |-> 1, mtime |-> 2],
      [kind |-> "file", name |-> <<"b", ".", "M", "D">>, size |-> 2, ctime |-> 2, mtime |-> 3],
      [kind |-> "file", name |-> <<"c">>, size |-> 0, ctime |-> 3, mtime |-> 1],
      [kind |-> "dir", name |-> <<"d", ".", "t", "x", "t">>, size |-> 0, ctime |-> 2, mtime |-> 2] }

(* The entries that may follow the prefix t: one of the choices, in an open
   directory that holds no entry of that name yet *)
AttrNextEntries(t) ==
    LET choices ==
          { c \in OpenDirs(t) \X AttrChoices :
              \A j \in 1..Len(t) : t[j].parent # c[1] \/ t[j].name # c[2].name }
    IN { [parent |-> c[1], kind |-> c[2].kind, name |-> c[2].name, size |-> c[2].size,
          ctime |-> c[2].ctime, mtime |-> c[2].mtime,
          text |-> Rep("x", c[2].size), ok |-> TRUE] : c \in choices }

RECURSIVE GrowAttrTrees(_, _, _)
GrowAttrTrees(grown, acc, n) ==
    IF n = 0 \/ grown = {} THEN acc
    ELSE LET larger == UNION { { Append(t, e) : e \in AttrNextEntries(t) } : t \in grown }
         IN GrowAttrTrees(larger, acc \cup larger, n - 1)

AttrTrees(n) == GrowAttrTrees({<< >>}, {<< >>}, n)

(* search_by_attributes with each constraint absent or supplied, the default
   cap of 100 results and no depth limit *)
ConstraintReqs ==
    { [BaseReq EXCEPT !.mode = "attr", !.max_results = 100,
                      !.file_type = ft, !.min_size = lo, !.max_size = hi,
                      !.created_after = ca, !.created_before = cb,
                      !.modified_after = ma, !.modified_before = mb,
                      !.extensions = ex] :
        ft \in {None, Some("file"), Some("directory")},
        lo \in {None, Some(1)}, hi \in {None, Some(1)},
        ca \in {None, Some(2)}, cb \in {None, Some(2)},
        ma \in {None, Some(2)}, mb \in {None, Some(2)},
        ex \in {None, Some({<<"T", "X", "T">>}), Some({<<".", "m", "d">>})} }

InitAttr ==
    /\ rootKind = "dir"
    /\ tree \in AttrTrees(AttrNodes)
    /\ req \in ConstraintReqs
    /\ phase = "idle"
    /\ outcome = "none"
    /\ stack = << >>
    /\ results = << >>
    /\ listed = << >>
    /\ tested = << >>
    /\ raised = FALSE
    /\ groups = << >>
    /\ lines = << >>
    /\ shown_item_count = 0
    /\ outputs = << >>
    /\ files_to_check = << >>
    /\ futures = << >>
    /\ consumed = 0
    /\ overtook = FALSE

NextAttr == StartSearch \/ EnterDir \/ VisitItem \/ LeaveDir \/ FinishSearch

SpecAttr == InitAttr /\ [][NextAttr]_vars

-----------------------------------------------------------------------------
(* The search by size of the REST route and of the tool handler *)

(* get_file_details_dict of operations/browse.py: a symbolic link has the
   type symlink, and only an entry of type file has a size *)
get_file_details_dict(i) ==
    LET file_type == IF tree[i].kind = "symlink" THEN "symlink"
                     ELSE IF IsDir(i) THEN "directory" ELSE "file"
    IN [get_file_details(i) EXCEPT !.type = file_type,
                                   !.size = IF file_type = "file" THEN Some(tree[i].size)
                                            ELSE None]

(* The normalized extension allow-list of search_by_size *)
SizeExtensions ==
    IF IsNone(req.extensions) THEN {} ELSE {NormExtension(e) : e \in Val(req.extensions)}

(* The loop over the files of one directory: it ends when the results are
   full; a file joins them when its size is in the range and its extension
   is allowed. *)
RECURSIVE SizeCheckFiles(_, _)
SizeCheckFiles(acc, files) ==
    IF files = << >> \/ Len(acc.results) >= req.max_results THEN acc
    ELSE LET i == Head(files)
             size == tree[i].size
             hit == /\ IsNone(req.min_size) \/ size >= Val(req.min_size)
                    /\ IsNone(req.max_size) \/ size <= Val(req.max_size)
                    /\ ~(SizeExtensions # {} /\ Lower(Suffix(tree[i].name)) \notin SizeExtensions)
         IN SizeCheckFiles([results |-> IF hit THEN Append(acc.results, get_file_details_dict(i))
                                        ELSE acc.results,
                            tested |-> Append(acc.tested, i)],
                           Tail(files))

(* One iteration of the loop over os.walk(start_path): the walk lists the
   next directory, the loop checks its files, and the walk goes on with its
   subdirectories before the directories waiting. *)
SizeWalkDir ==
    /\ phase = "walking"
    /\ req.mode = "size"
    /\ stack # << >>
    /\ Len(results) < req.max_results
    /\ listed' = Append(listed, [dir |-> top.dir, by |-> "oswalk", ok |-> Listable(top.dir)])
    /\ IF Listable(top.dir)
         THEN LET kids == Children(top.dir)
                  files == SelectSeqBy(kids, {i \in Nodes : ~IsDir(i)})
                  dirs == SelectSeqBy(kids, {i \in Nodes : IsDir(i)})
                  checked == SizeCheckFiles([results |-> results, tested |-> tested], files)
              IN /\ results' = checked.results
                 /\ tested' = checked.tested
                 /\ stack' = [k \in 1..Len(dirs) |-> Frame(dirs[k], top.depth + 1)] \o Tail(stack)
         ELSE /\ stack' = Tail(stack)
              /\ UNCHANGED <<results, tested>>
    /\ UNCHANGED <<rootKind, tree, req, phase, outcome, raised, groups>>
    /\ UNCHANGED poolVars
    /\ UNCHANGED renderVars

(* Whether results.sort(key=size, reverse=True) raises TypeError: the sort
   compares the keys of a list of two entries or more, and None compares
   with nothing. *)
SortRaises(res) == Len(res) >= 2 /\ \E k \in 1..Len(res) : IsNone(res[k].size)

(* The loop over os.walk ends, with the walk or with the full results; the
   results are sorted by size, largest first, and the route answers with
   the list, or with the error the sort raised. *)
SizeFinish ==
    /\ phase = "walking"
    /\ req.mode = "size"
    /\ stack = << >> \/ Len(results) >= req.max_results
    /\ phase' = "done"
    /\ IF SortRaises(results)
       THEN /\ outcome' = "error"
            /\ raised' = TRUE
            /\ UNCHANGED results
       ELSE /\ outcome' = "ok"
            /\ results' = SortedDesc(results, [k \in 1..Len(results) |->
                                                 IF IsNone(results[k].size) THEN 0
                                                 ELSE Val(results[k].size)])
            /\ UNCHANGED raised
    /\ UNCHANGED <<rootKind, tree, req, stack, listed, tested, groups>>
    /\ UNCHANGED poolVars
    /\ UNCHANGED renderVars

SizeNodes == 2

(* The entries a directory may hold: the file a.txt of 1 byte, the file b.md
   of 2 bytes, the symbolic link l.txt to a file of 1 byte, and the
   directory d *)
SizeChoices ==
    { [kind |-> "file", name |-> <<"a", ".", "t", "x", "t">>, size |-> 1],
      [kind |-> "file", name |-> <<"b", ".", "m", "d">>, size |-> 2],
      [kind |-> "symlink", name |-> <<"l", ".", "t", "x", "t">>, size |-> 1],
      [kind |-> "dir", name |-> <<"d">>, size |-> 0] }

SizeNextEntries(t) ==
    LET choices ==
          { c \in OpenDirs(t) \X SizeChoices :
              \A j \in 1..Len(t) : t[j].parent # c[1] \/ t[j].name # c[2].name }
    IN { [parent |-> c[1], kind |-> c[2].kind, name |-> c[2].name, size |-> c[2].size,
          ctime |-> 1, mtime |-> 1, text |-> Rep("x", c[2].size), ok |-> TRUE] :
           c \in choices }

RECURSIVE GrowSizeTrees(_, _, _)
GrowSizeTrees(grown, acc, n) ==
    IF n = 0 \/ grown = {} THEN acc
    ELSE LET larger == UNION { { Append(t, e) : e \in SizeNextEntries(t) } : t \in grown }
         IN GrowSizeTrees(larger, acc \cup larger, n - 1)

SizeTrees(n) == GrowSizeTrees({<< >>}, {<< >>}, n)

(* search_by_size with each bound absent or supplied *)
SizeReqs ==
    { [BaseReq EXCEPT !.mode = "size", !.impl = "route", !.max_results = n,
                      !.min_size = lo, !.max_size = hi, !.extensions = ex] :
        n \in CapChoices, lo \in {None, Some(1), Some(2)}, hi \in {None, Some(1)},
        ex \in {None, Some({<<"T", "X", "T">>})} }

InitSize ==
    /\ rootKind = "dir"
    /\ tree \in SizeTrees(SizeNodes)
    /\ req \in SizeReqs
    /\ phase = "idle"
    /\ outcome = "none"
    /\ stack = << >>
    /\ results = << >>
    /\ listed = << >>
    /\ tested = << >>
    /\ raised = FALSE
    /\ groups = << >>
    /\ lines = << >>
    /\ shown_item_count = 0
    /\ outputs = << >>
    /\ files_to_check = << >>
    /\ futures = << >>
    /\ consumed = 0
    /\ overtook = FALSE

NextSize == StartSearch \/ SizeWalkDir \/ SizeFinish

SpecSize == InitSize /\ [][NextSize]_vars

-----------------------------------------------------------------------------
(* Name searches over entries with extensions *)

NameNodes == 3

(* a.txt, b.TXT, c.md and txt *)
NameChoices ==
    { <<"a", ".", "t", "x", "t">>, <<"b", ".", "T", "X", "T">>,
      <<"c", ".", "m", "d">>, <<"t", "x", "t">> }

(* *.txt, *.TXT, txt and ?.md *)
PatternChoices ==
    { <<"*", ".", "t", "x", "t">>, <<"*", ".", "T", "X", "T">>,
      <<"t", "x", "t">>, <<"?", ".", "m", "d">> }

(* The entries that may follow the prefix t: a file or a listable directory
   with a name none of its siblings has *)
NameNextEntries(t) ==
    LET choices ==
          { c \in OpenDirs(t) \X {"file", "dir"} \X NameChoices :
              \A j \in 1..Len(t) : t[j].parent # c[1] \/ t[j].name # c[3] }
    IN { [parent |-> c[1], kind |-> c[2], name |-> c[3],
          size |-> IF c[2] = "file" THEN 1 ELSE 0, ctime |-> 1, mtime |-> 1,
          text |-> IF c[2] = "file" THEN <<"x">> ELSE << >>, ok |-> TRUE] :
           c \in choices }

RECURSIVE GrowNameTrees(_, _, _)
GrowNameTrees(grown, acc, n) ==
    IF n = 0 \/ grown = {} THEN acc
    ELSE LET larger == UNION { { Append(t, e) : e \in NameNextEntries(t) } : t \in grown }
         IN GrowNameTrees(larger, acc \cup larger, n - 1)

NameTrees(n) == GrowNameTrees({<< >>}, {<< >>}, n)

(* Searches by name with the default cap of 100 results and no depth limit *)
PatternReqs ==
    { [BaseReq EXCEPT !.mode = "name", !.pattern = p, !.case_sensitive = cs,
                      !.max_results = 100] :
        p \in PatternChoices, cs \in BOOLEAN }

InitName ==
    /\ rootKind = "dir"
    /\ tree \in NameTrees(NameNodes)
    /\ req \in PatternReqs
    /\ phase = "idle"
    /\ outcome = "none"
    /\ stack = << >>
    /\ results = << >>
    /\ listed = << >>
    /\ tested = << >>
    /\ raised = FALSE
    /\ groups = << >>
    /\ lines = << >>
    /\ shown_item_count = 0
    /\ outputs = << >>
    /\ files_to_check = << >>
    /\ futures = << >>
    /\ consumed = 0
    /\ overtook = FALSE

NextName == StartSearch \/ EnterDir \/ VisitItem \/ LeaveDir \/ FinishSearch

SpecName == InitName /\ [][NextName]_vars

-----------------------------------------------------------------------------
(* The tree renderer: format_directory_tree *)

(* The characters of the model's names in code point order *)
CharOrder == <<"0", "1", "2", "3", "4", "5", "6", "7", "8", "9", "A", "B", "a", "b">>

(* ord() *)
Ord(c) == CHOOSE k \in 1..Len(CharOrder) : CharOrder[k] = c

(* s < t on Python strings *)
RECURSIVE StrLess(_, _)
StrLess(s, t) ==
    IF t = << >> THEN FALSE
    ELSE IF s = << >> THEN TRUE
    ELSE IF Head(s) = Head(t) THEN StrLess(Tail(s), Tail(t))
    ELSE Ord(Head(s)) < Ord(Head(t))

(* key=lambda x: (0 if x.is_file() else 1, x.name.lower()) *)
TreeSortKey(i) == <<IF IsFile(i) THEN 0 ELSE 1, Lower(tree[i].name)>>

(* k1 < k2 on the key tuples *)
KeyLess(k1, k2) == k1[1] < k2[1] \/ (k1[1] = k2[1] /\ StrLess(k1[2], k2[2]))

(* Insert x behind every item whose key is not greater: the sort is stable *)
RECURSIVE InsertByKey(_, _)
InsertByKey(x, sorted) ==
    IF sorted = << >> THEN <<x>>
    ELSE IF KeyLess(TreeSortKey(x), TreeSortKey(Head(sorted))) THEN <<x>> \o sorted
    ELSE <<Head(sorted)>> \o InsertByKey(x, Tail(sorted))

RECURSIVE SortByKey(_, _)
SortByKey(todo, acc) ==
    IF todo = << >> THEN acc
    ELSE CHOOSE s \in { SortByKey(Tail(todo), next) : next \in {InsertByKey(Head(todo), acc)} } :
             TRUE

(* items.sort(key=...) *)
SortedItems(items) == SortByKey(items, << >>)

(* path_obj.name of the start directory *)
RootName == <<"r">>

(* A rendered line: its text, in pieces, the entry it shows (0: none) and
   the directory whose call of add_directory appended it (-1: the line of
   the root, appended before the first call).  The box-drawing pieces are written in ASCII: "L-- " is the corner, "+-- "
   the tee and "|   " the bar. *)
Line(text, node, dir) == [text |-> text, node |-> node, dir |-> dir]

(* The new render goes on from the lines of the last one *)
InitialLinesKept(old) == Append(old, Line(RootName \o <<"/">>, 0, -1))

(* lines = [] and the line of the root *)
InitialLines(old) == <<Line(RootName \o <<"/">>, 0, -1)>>

(* "\n".join(lines) *)
JoinLines(ls) == [k \in 1..Len(ls) |-> ls[k].text]

(* A call add_directory(current_path, prefix, depth) about to run *)
TreeFrame(d, prefix, depth) ==
    [dir |-> d, prefix |-> prefix, depth |-> depth, pc |-> "enter",
     items |-> << >>, hidden |-> 0]

(* format_directory_tree up to the first call of add_directory.  A start path
   that is no directory returns its message at once. *)
StartRender ==
    /\ phase = "idle"
    /\ req.mode = "tree"
    /\ IF rootKind = "missing"
         THEN /\ outputs' = Append(outputs, <<<<"Path not found">>>>)
              /\ phase' = IF Len(outputs') < 2 THEN "idle" ELSE "done"
              /\ outcome' = "root_invalid"
              /\ UNCHANGED <<stack, lines, shown_item_count>>
         ELSE IF rootKind # "dir"
         THEN /\ outputs' = Append(outputs, <<<<"Not a directory">>>>)
              /\ phase' = IF Len(outputs') < 2 THEN "idle" ELSE "done"
              /\ outcome' = "root_invalid"
              /\ UNCHANGED <<stack, lines, shown_item_count>>
         ELSE /\ lines' = InitialLines(lines)
              /\ shown_item_count' = 0
              /\ stack' = <<TreeFrame(0, << >>, 1)>>
              /\ phase' = "rendering"
              /\ UNCHANGED <<outcome, outputs>>
    /\ UNCHANGED <<rootKind, tree, req>>
    /\ UNCHANGED searchVars
    /\ UNCHANGED poolVars

(* The depth check one level late *)
BeyondMaxDepthOneLate(depth) == depth > req.max_depth + 1

(* if depth > max_depth *)
BeyondMaxDepth(depth) == depth > req.max_depth

(* The head of add_directory: the depth check, then the listing, sorted and
   cut to max_items.  A refused listing leaves its marker line. *)
AddEnter ==
    /\ phase = "rendering"
    /\ stack # << >>
    /\ top.pc = "enter"
    /\ IF BeyondMaxDepth(top.depth)
         THEN /\ lines' = Append(lines, Line(top.prefix \o <<"L-- ...">>, 0, top.dir))
              /\ stack' = Tail(stack)
              /\ UNCHANGED listed
         ELSE IF ~Listable(top.dir)
         THEN /\ lines' = Append(lines, Line(top.prefix \o <<"L-- [Permission denied]">>, 0,
                                             top.dir))
              /\ stack' = Tail(stack)
              /\ listed' = Append(listed, [dir |-> top.dir, by |-> "render", ok |-> FALSE])
         ELSE LET items == SortedItems(Children(top.dir))
                  display_items == Take(items, req.max_items)
                  hidden_count == Len(items) - Len(display_items)
              IN /\ stack' = <<[top EXCEPT !.pc = "loop", !.items = display_items,
                                           !.hidden = hidden_count]>> \o Tail(stack)
                 /\ listed' = Append(listed, [dir |-> top.dir, by |-> "render", ok |-> TRUE])
                 /\ UNCHANGED lines
    /\ UNCHANGED <<rootKind, tree, req, phase, outcome, shown_item_count, outputs>>
    /\ UNCHANGED <<results, tested, raised, groups>>
    /\ UNCHANGED poolVars

(* The last item of display_items counts as the last even when items are
   hidden *)
IsLastAmongShown(items, hidden_count) == Tail(items) = << >>

(* is_last of the item at the head of the items still to show:
   (i == len(display_items) - 1) and (hidden_count == 0) *)
is_last_item(items, hidden_count) == Tail(items) = << >> /\ hidden_count = 0

(* One iteration of the loop over display_items: the line of the item, and
   the call for a directory. *)
AddItem ==
    /\ phase = "rendering"
    /\ stack # << >>
    /\ top.pc = "loop"
    /\ top.items # << >>
    /\ LET item == Head(top.items)
           rest == [top EXCEPT !.items = Tail(top.items)]
           is_last == is_last_item(top.items, top.hidden)
           curr_prefix == top.prefix \o (IF is_last THEN <<"L-- ">> ELSE <<"+-- ">>)
           next_prefix == top.prefix \o (IF is_last THEN <<"    ">> ELSE <<"|   ">>)
       IN /\ shown_item_count' = shown_item_count + 1
          /\ IF IsDir(item)
               THEN /\ lines' = Append(lines, Line(curr_prefix \o tree[item].name \o <<"/">>, item,
                                                 top.dir))
                    /\ stack' = <<TreeFrame(item, next_prefix, top.depth + 1), rest>>
                                \o Tail(stack)
               ELSE /\ lines' = Append(lines, Line(curr_prefix \o tree[item].name, item, top.dir))
                    /\ stack' = <<rest>> \o Tail(stack)
    /\ UNCHANGED <<rootKind, tree, req, phase, outcome, outputs>>
    /\ UNCHANGED searchVars
    /\ UNCHANGED poolVars

(* The loop has run out of items: the line of the hidden items, if any, and
   add_directory returns. *)
AddLeave ==
    /\ phase = "rendering"
    /\ stack # << >>
    /\ top.pc = "loop"
    /\ top.items = << >>
    /\ lines' = IF top.hidden > 0
                  THEN Append(lines, Line(top.prefix \o (<<"L-- ... ">> \o Digits(top.hidden)
                                                 \o <<" more items">>), 0, top.dir))
                  ELSE lines
    /\ stack' = Tail(stack)
    /\ UNCHANGED <<rootKind, tree, req, phase, outcome, shown_item_count, outputs>>
    /\ UNCHANGED searchVars
    /\ UNCHANGED poolVars

(* The first call of add_directory has returned: the render returns its
   text.  The caller then renders the same path once more. *)
FinishRender ==
    /\ phase = "rendering"
    /\ stack = << >>
    /\ outputs' = Append(outputs, JoinLines(lines))
    /\ phase' = IF Len(outputs') < 2 THEN "idle" ELSE "done"
    /\ outcome' = "ok"
    /\ UNCHANGED <<rootKind, tree, req, stack, lines, shown_item_count>>
    /\ UNCHANGED searchVars
    /\ UNCHANGED poolVars

MaxItemsBound == 2

TreeReqs ==
    { [BaseReq EXCEPT !.mode = "tree", !.max_items = n, !.max_depth = d] :
        n \in 1..MaxItemsBound, d \in 1..(MaxDepthBound + 1) }

InitTree ==
    /\ rootKind \in {"dir", "file", "missing"}
    /\ tree \in IF rootKind = "dir" THEN Trees(NumNodes, WalkAttrs) ELSE {<< >>}
    /\ req \in TreeReqs
    /\ phase = "idle"
    /\ outcome = "none"
    /\ stack = << >>
    /\ results = << >>
    /\ listed = << >>
    /\ tested = << >>
    /\ raised = FALSE
    /\ groups = << >>
    /\ lines = << >>
    /\ shown_item_count = 0
    /\ outputs = << >>
    /\ files_to_check = << >>
    /\ futures = << >>
    /\ consumed = 0
    /\ overtook = FALSE

NextTree == StartRender \/ AddEnter \/ AddItem \/ AddLeave \/ FinishRender

SpecTree == InitTree /\ [][NextTree]_vars

-----------------------------------------------------------------------------
(* Every walk and the render over a start directory, each step taken in the
   end: the program runs on until the function returns *)

TermNodes == 2

TermAttrs ==
    [ letters |-> {"a"}, times |-> {<<1, 1>>},
      texts |-> {<<"x">>}, oks |-> BOOLEAN, fileOks |-> {TRUE} ]

TermReqs ==
    NameReqs \cup AttrReqs \cup RecentReqs \cup {[BaseReq EXCEPT !.mode = "dup"]} \cup TreeReqs

InitTerm ==
    /\ rootKind = "dir"
    /\ tree \in Trees(TermNodes, TermAttrs)
    /\ req \in TermReqs
    /\ phase = "idle"
    /\ outcome = "none"
    /\ stack = << >>
    /\ results = << >>
    /\ listed = << >>
    /\ tested = << >>
    /\ raised = FALSE
    /\ groups = << >>
    /\ lines = << >>
    /\ shown_item_count = 0
    /\ outputs = << >>
    /\ files_to_check = << >>
    /\ futures = << >>
    /\ consumed = 0
    /\ overtook = FALSE

NextTerm ==
    \/ StartSearch
    \/ EnterDir \/ VisitItem \/ LeaveDir \/ FinishSearch
    \/ ScanEnter \/ ScanItem \/ ScanLeave \/ FinishDuplicates
    \/ StartRender \/ AddEnter \/ AddItem \/ AddLeave \/ FinishRender

SpecTerm == InitTerm /\ [][NextTerm]_vars /\ WF_vars(NextTerm)

-----------------------------------------------------------------------------
(* Properties of the name and attribute walks *)

(* The entries a name, attribute or recent search has returned; the results
   of a duplicate scan are groups *)
ResultNodes ==
    IF req.mode = "dup" THEN {} ELSE {results[k].node : k \in 1..Len(results)}
TestedNodes == {tested[k] : k \in 1..Len(tested)}

(* The depth of the children of a listed directory *)
ChildDepth(d) == IF d = 0 THEN 0 ELSE Depth(d) + 1

(* An entry the walk can get to: every directory above it lists *)
Reachable(i) == \A d \in Ancestors(i) : tree[d].ok

(* C1: in a name or attribute search the result list never holds more than
   max_results entries, at any point of the walk and on return. *)
C1_ResultCapNeverExceeded ==
    req.mode \in {"name", "attr"} => Len(results) <= req.max_results

(* C2: once the result list of a name or attribute search holds max_results
   entries, no step of the walk tests a further entry, appends a further
   result or lists a further directory. *)
C2_WalkStopsAtCap ==
    [][ (req.mode \in {"name", "attr"} /\ Len(results) >= req.max_results)
          => (results' = results /\ tested' = tested /\ listed' = listed) ]_vars

(* C3 as claimed: with max_depth = D no returned entry lies deeper than D and
   no directory whose children lie deeper than D is listed (a refused listing
   not counted), by the walk or for an entry's details. *)
C3_NoListingBelowDepthLimit ==
    (req.mode \in {"name", "attr"} /\ ~IsNone(req.max_depth)) =>
        /\ \A k \in 1..Len(results) : Depth(results[k].node) <= Val(req.max_depth)
        /\ \A k \in 1..Len(listed) :
              listed[k].ok => ChildDepth(listed[k].dir) <= Val(req.max_depth)

(* C3 amended: with max_depth = D no returned or tested entry lies deeper
   than D and the walk itself lists no directory whose children lie deeper
   than D; the only other listing is the one get_file_details makes of a
   matched directory, itself no deeper than D.  Without max_depth a search
   that ends below its cap has tested every entry it can get to. *)
C3_DepthLimitRespected ==
    req.mode \in {"name", "attr"} =>
        /\ ~IsNone(req.max_depth) =>
              /\ \A k \in 1..Len(results) : Depth(results[k].node) <= Val(req.max_depth)
              /\ \A k \in 1..Len(tested) : Depth(tested[k]) <= Val(req.max_depth)
              /\ \A k \in 1..Len(listed) :
                    IF listed[k].by = "walk"
                    THEN ChildDepth(listed[k].dir) <= Val(req.max_depth)
                    ELSE /\ listed[k].dir \in ResultNodes
                         /\ Depth(listed[k].dir) <= Val(req.max_depth)
        /\ (IsNone(req.max_depth) /\ outcome = "ok" /\ Len(results) < req.max_results) =>
              \A i \in Nodes : Reachable(i) => i \in TestedNodes

(* A finished search with a depth limit, over a tree that goes deeper than
   the limit, that returned a directory lying exactly at the limit *)
C3_Witness ==
    /\ req.mode = "name" /\ ~IsNone(req.max_depth) /\ outcome = "ok"
    /\ \E i \in Nodes : Reachable(i) /\ Depth(i) > Val(req.max_depth)
    /\ \E k \in 1..Len(results) :
          /\ results[k].type = "directory"
          /\ Depth(results[k].node) = Val(req.max_depth)

(* The entries the duplicate scan has filed under a key *)
GroupedNodes == UNION {{groups[k].paths[m] : m \in 1..Len(groups[k].paths)} : k \in 1..Len(groups)}

(* What a refused listing of the directory d must leave: nothing below d
   visited and, when siblingsDue, every sibling of d tested and returned
   (filed under its key by the duplicate scan) if it matches. *)
DeniedHandled(d, siblingsDue) ==
    /\ \A n \in Nodes :
          d \in Ancestors(n) =>
             (n \notin TestedNodes /\ n \notin ResultNodes /\ n \notin GroupedNodes)
    /\ siblingsDue =>
          \A sb \in Nodes :
             (sb # d /\ tree[sb].parent = tree[d].parent) =>
                /\ sb \in TestedNodes
                /\ IF req.mode = "dup"
                   THEN IsFile(sb) => sb \in GroupedNodes
                   ELSE Matches(sb) => sb \in ResultNodes

(* C4 as claimed: when the listing of a subdirectory is refused during a
   walk, nothing below it is visited, no exception leaves the search, and
   once the search has returned every sibling of the subdirectory has been
   tested and is returned if it matches. *)
C4_SiblingsAlwaysReturned ==
    /\ ~raised
    /\ outcome # "raised"
    /\ req.mode \in {"name", "attr", "dup"} =>
          \A k \in 1..Len(listed) :
             (listed[k].by = "walk" /\ ~listed[k].ok) =>
                DeniedHandled(listed[k].dir, outcome = "ok")

(* C4 amended: the same, the siblings being due only when the name or
   attribute search has ended with fewer than max_results results (the
   duplicate scan has no cap and always owes them). *)
C4_DeniedSubdirectorySkipped ==
    /\ ~raised
    /\ outcome # "raised"
    /\ req.mode \in {"name", "attr", "dup"} =>
          \A k \in 1..Len(listed) :
             (listed[k].by = "walk" /\ ~listed[k].ok) =>
                DeniedHandled(listed[k].dir,
                              /\ outcome = "ok"
                              /\ req.mode = "dup" \/ Len(results) < req.max_results)

(* A finished search that was refused a subdirectory and returned a sibling
   listed after it *)
C4_Witness ==
    /\ req.mode = "name" /\ outcome = "ok"
    /\ \E k \in 1..Len(listed) :
          /\ listed[k].by = "walk" /\ ~listed[k].ok
          /\ \E sb \in ResultNodes :
                sb > listed[k].dir /\ tree[sb].parent = tree[listed[k].dir].parent

-----------------------------------------------------------------------------
(* Properties of the duplicate scan *)

Files == {i \in Nodes : IsFile(i)}

(* The files of the tree that share a (name, size) key, and those of them
   the scan can get to *)
NameAndSize(i) == <<tree[i].name, tree[i].size>>
FilesWithKey(key) == {i \in Files : NameAndSize(i) = key}
ReachableWithKey(key) == {i \in FilesWithKey(key) : Reachable(i)}

GroupKey(g) == <<g.name, g.size>>
PathSet(g) == {g.paths[k] : k \in 1..Len(g.paths)}

DupDone == req.mode = "dup" /\ outcome = "ok"

(* C6 as claimed: two files of equal name and size, the only ones of their
   key in the tree, make a group of count 2 holding exactly their paths
   (max_results being at least the number of keys with two files or more),
   and a file that is alone with its key is in no group. *)
C6_PairGroupedLoneFileAbsent ==
    DupDone =>
      /\ Cardinality({NameAndSize(i) : i \in {j \in Files : Cardinality(FilesWithKey(NameAndSize(j))) > 1}})
             <= req.max_results =>
            \A a, b \in Files :
               (a # b /\ FilesWithKey(NameAndSize(a)) = {a, b}) =>
                  \E k \in 1..Len(results) :
                     /\ GroupKey(results[k]) = NameAndSize(a)
                     /\ results[k].count = 2
                     /\ Len(results[k].paths) = 2
                     /\ PathSet(results[k]) = {a, b}
      /\ \A i \in Files :
            FilesWithKey(NameAndSize(i)) = {i} =>
               \A k \in 1..Len(results) : i \notin PathSet(results[k])

(* C6 amended: the same, for two files that both lie in directories the scan
   can list (no directory above them refuses its listing). *)
C6_ReachablePairGrouped ==
    DupDone =>
      /\ Cardinality({NameAndSize(i) : i \in {j \in Files : Cardinality(FilesWithKey(NameAndSize(j))) > 1}})
             <= req.max_results =>
            \A a, b \in Files :
               (a # b /\ FilesWithKey(NameAndSize(a)) = {a, b} /\ Reachable(a) /\ Reachable(b)) =>
                  \E k \in 1..Len(results) :
                     /\ GroupKey(results[k]) = NameAndSize(a)
                     /\ results[k].count = 2
                     /\ Len(results[k].paths) = 2
                     /\ PathSet(results[k]) = {a, b}
      /\ \A i \in Files :
            FilesWithKey(NameAndSize(i)) = {i} =>
               \A k \in 1..Len(results) : i \notin PathSet(results[k])

(* A finished scan that returned a pair while a file of the same name and
   another size, alone with its key, stayed out *)
C6_Witness ==
    /\ DupDone
    /\ \E k \in 1..Len(results) : results[k].count = 2
    /\ \E i, j \in Files :
          /\ tree[i].name = tree[j].name /\ tree[i].size # tree[j].size
          /\ FilesWithKey(NameAndSize(i)) = {i}
          /\ j \in UNION {PathSet(results[k]) : k \in 1..Len(results)}

(* C7 as claimed: every returned group has count = length of paths = the
   number of files anywhere under the root with the group's key, and
   count >= 2. *)
C7_CountIsAllFilesUnderRoot ==
    DupDone =>
      \A k \in 1..Len(results) :
         /\ results[k].count = Len(results[k].paths)
         /\ results[k].count = Cardinality(FilesWithKey(GroupKey(results[k])))
         /\ results[k].count >= 2

(* C7 amended: every returned group has count = length of paths = the number
   of files with the group's key in the directories the scan can list, at
   any depth and whatever max_results is, its paths are exactly those files,
   and count >= 2; the scan has visited every entry it can get to. *)
C7_CountIsReachableFiles ==
    DupDone =>
      /\ \A k \in 1..Len(results) :
            /\ results[k].count = Len(results[k].paths)
            /\ results[k].count = Cardinality(ReachableWithKey(GroupKey(results[k])))
            /\ PathSet(results[k]) = ReachableWithKey(GroupKey(results[k]))
            /\ results[k].count >= 2
      /\ \A i \in Nodes : Reachable(i) => i \in TestedNodes

(* A finished scan with max_results = 1 that returned a group of three files,
   one of them two levels below the root *)
C7_Witness ==
    /\ DupDone /\ req.max_results = 1
    /\ \E k \in 1..Len(results) :
          /\ results[k].count = 3
          /\ \E i \in PathSet(results[k]) : Depth(i) >= 1

(* The keys that two or more files the scan can get to share *)
FoundKeys == {key \in {NameAndSize(i) : i \in Files} : Cardinality(ReachableWithKey(key)) > 1}
FoundCount(key) == Cardinality(ReachableWithKey(key))

(* C8: the groups are returned in non-increasing order of count, cut to
   max_results after the sorting: as many as max_results allows are
   returned, and no group left out is larger than a returned one. *)
C8_GroupsSortedThenCut ==
    DupDone =>
      /\ \A k \in 1..(Len(results) - 1) : results[k].count >= results[k + 1].count
      /\ Len(results) <= req.max_results
      /\ Len(results) = IF Cardinality(FoundKeys) < req.max_results
                        THEN Cardinality(FoundKeys) ELSE req.max_results
      /\ \A k \in 1..Len(results) : GroupKey(results[k]) \in FoundKeys
      /\ \A key \in FoundKeys :
            (\A k \in 1..Len(results) : GroupKey(results[k]) # key) =>
               \A k \in 1..Len(results) : FoundCount(key) <= results[k].count

(* A finished scan that found a group of two before a group of three and,
   with max_results = 1, returned the group of three *)
C8_Witness ==
    /\ DupDone /\ req.max_results = 1
    /\ Len(groups) >= 2 /\ Len(groups[1].paths) = 2
    /\ Len(results) = 1 /\ results[1].count = 3

-----------------------------------------------------------------------------
(* Properties of the start path validation *)

(* C5: in every search mode (name, content, attributes, recent, duplicates)
   a start path that does not exist or is no directory makes the search fail
   with the root-invalid condition before any directory is listed or any
   file is examined, and no result is returned. *)
C5_InvalidRootFailsBeforeTraversal ==
    rootKind # "dir" =>
        /\ listed = << >> /\ tested = << >>
        /\ files_to_check = << >> /\ futures = << >>
        /\ results = << >> /\ groups = << >>
        /\ phase \in {"idle", "done"}
        /\ phase = "done" => outcome = "root_invalid"

(* A content search over a start path that is a file has failed *)
C5_Witness ==
    /\ rootKind = "file"
    /\ req.mode = "content"
    /\ phase = "done"
    /\ outcome = "root_invalid"

-----------------------------------------------------------------------------
(* Properties of the tree renderer *)

(* C9: with the filesystem unchanged between the calls, two renders of the
   same path with the same max_items and max_depth return the same text. *)
C9_RendersAreEqual ==
    \A i, j \in 1..Len(outputs) : outputs[i] = outputs[j]

(* Two finished renders of a directory with a subdirectory and a hidden
   item *)
C9_Witness ==
    /\ Len(outputs) = 2
    /\ rootKind = "dir"
    /\ \E i \in Nodes : IsDir(i) /\ \E k \in 1..Len(lines) : lines[k].node = i
    /\ \E k \in 1..Len(lines) : \E m \in 1..Len(lines[k].text) :
          lines[k].text[m] = " more items"

(* The position of the line of an entry in the render, 0 if it has none *)
LineOf(i) ==
    IF \E k \in 1..Len(lines) : lines[k].node = i
    THEN CHOOSE k \in 1..Len(lines) : lines[k].node = i
    ELSE 0

(* C10: among the shown children of one directory the directories come
   before the files, and within a kind the names ascend without regard to
   case. *)
C10_DirectoriesBeforeFiles ==
    (phase = "done" /\ outcome = "ok") =>
        \A i, j \in Nodes :
            (/\ tree[i].parent = tree[j].parent
             /\ LineOf(i) > 0 /\ LineOf(j) > 0
             /\ \/ IsDir(i) /\ IsFile(j)
                \/ /\ IsDir(i) = IsDir(j)
                   /\ StrLess(Lower(tree[i].name), Lower(tree[j].name)))
            => LineOf(i) < LineOf(j)

(* The last render is complete *)
RenderDone == req.mode = "tree" /\ outcome = "ok" /\ phase # "rendering"

(* The depth argument of the call add_directory makes for a directory *)
CallDepth(d) == IF d = 0 THEN 1 ELSE Depth(d) + 2

ShownNodes == {lines[k].node : k \in 1..Len(lines)} \ {0}
ChildSet(d) == {i \in Nodes : tree[i].parent = d}

(* The directories the render has listed: the root and every shown
   directory within max_depth whose listing is not refused *)
RenderListed ==
    {d \in {0} \cup {i \in Nodes : IsDir(i) /\ i \in ShownNodes} :
        CallDepth(d) <= req.max_depth /\ Listable(d)}

(* The directories below d, d included *)
Subtree(d) == {d} \cup {i \in Nodes : d \in Ancestors(i)}

(* The lines an entry has, and the "more items" lines of a directory *)
EntryLines(i) == {k \in 1..Len(lines) : lines[k].node = i}
MarkerLines(d) ==
    {k \in 1..Len(lines) :
        /\ lines[k].dir = d /\ lines[k].node = 0
        /\ lines[k].text[Len(lines[k].text)] = " more items"}

(* The order in which the renderer sorts: files before directories, then
   the names without regard to case *)
SortsBefore(i, j) ==
    \/ IsFile(i) /\ IsDir(j)
    \/ IsDir(i) = IsDir(j) /\ StrLess(Lower(tree[i].name), Lower(tree[j].name))

Min(a, b) == IF a < b THEN a ELSE b

(* C11: a listed directory of k children has min(k, max_items) child lines,
   one for each of the first max_items children in the renderer's sort
   order; if k > max_items it has exactly one marker line, which reports
   k - max_items more items and comes after every other line of the
   directory and of what lies below it; if k <= max_items it has none. *)
C11_ItemsCutWithMarker ==
    RenderDone =>
      \A d \in RenderListed :
         LET kids == ChildSet(d)
             shown == kids \cap ShownNodes
             k == Cardinality(kids)
         IN /\ Cardinality(shown) = Min(k, req.max_items)
            /\ \A i \in shown : Cardinality(EntryLines(i)) = 1
            /\ \A i \in shown : \A h \in kids \ shown : ~SortsBefore(h, i)
            /\ IF k > req.max_items
               THEN /\ Cardinality(MarkerLines(d)) = 1
                    /\ \A m \in MarkerLines(d) :
                          /\ lines[m].text =
                                SubSeq(lines[m].text, 1,
                                       Len(lines[m].text) - 2
                                         - Len(Digits(k - req.max_items)))
                                \o <<"L-- ... ">> \o Digits(k - req.max_items)
                                \o <<" more items">>
                          /\ \A n \in 1..Len(lines) :
                                (n # m /\ lines[n].dir \in Subtree(d)) => n < m
               ELSE MarkerLines(d) = {}

(* A finished render with a directory that hides items and a directory
   that shows all its items *)
C11_Witness ==
    /\ RenderDone
    /\ \E d \in RenderListed : Cardinality(ChildSet(d)) > req.max_items
    /\ \E d \in RenderListed :
          /\ Cardinality(ChildSet(d)) > 0
          /\ Cardinality(ChildSet(d)) <= req.max_items

(* The line of a shown entry, its branch glyph, and the indentation prefix
   of a line *)
EntryLine(i) == CHOOSE k \in 1..Len(lines) : lines[k].node = i
Glyph(i) == lines[EntryLine(i)].text[CallDepth(tree[i].parent)]
LinePrefix(k) == SubSeq(lines[k].text, 1, CallDepth(lines[k].dir) - 1)

(* The shown child of its directory that is drawn last *)
LastShown(i) ==
    \A j \in ChildSet(tree[i].parent) \cap ShownNodes : EntryLine(j) <= EntryLine(i)

(* Every line of the call for the shown directory i is indented by the
   prefix of i's own line and the continuation of i's glyph: blank below a
   corner, the bar below a tee *)
PrefixFollowsGlyph(i) ==
    \A n \in 1..Len(lines) :
       lines[n].dir = i =>
          LinePrefix(n) = LinePrefix(EntryLine(i))
                            \o <<IF Glyph(i) = "L-- " THEN "    " ELSE "|   ">>

(* C12 as claimed: in every listed directory the last shown child has the
   corner glyph and every other shown child the tee glyph, and the subtree
   of a child directory is indented with the blank continuation below a
   corner and the bar below a tee. *)
C12_LastShownChildHasCorner ==
    RenderDone =>
      \A d \in RenderListed : \A i \in ChildSet(d) \cap ShownNodes :
         /\ Glyph(i) = IF LastShown(i) THEN "L-- " ELSE "+-- "
         /\ IsDir(i) => PrefixFollowsGlyph(i)

(* C12 amended: the last shown child has the corner glyph only when the
   directory hides no item; when it hides items every shown child has the
   tee glyph and the marker line of the hidden items has the corner.  The
   indentation of a child directory's subtree follows the child's glyph as
   claimed. *)
C12_CornerUnlessItemsHidden ==
    RenderDone =>
      \A d \in RenderListed : \A i \in ChildSet(d) \cap ShownNodes :
         /\ Glyph(i) = IF LastShown(i) /\ Cardinality(ChildSet(d)) <= req.max_items
                       THEN "L-- " ELSE "+-- "
         /\ IsDir(i) => PrefixFollowsGlyph(i)
         /\ \A m \in MarkerLines(d) : lines[m].text[CallDepth(d)] = "L-- ... "

(* A finished render that shows a directory with the tee glyph and one with
   the corner glyph, each with lines below it, and a directory that hides
   items *)
C12_Witness ==
    /\ RenderDone
    /\ \E i \in ShownNodes :
          IsDir(i) /\ Glyph(i) = "+-- " /\ \E n \in 1..Len(lines) : lines[n].dir = i
    /\ \E i \in ShownNodes :
          IsDir(i) /\ Glyph(i) = "L-- " /\ \E n \in 1..Len(lines) : lines[n].dir = i
    /\ \E d \in RenderListed : MarkerLines(d) # {}

(* How many levels below the root an entry lies: 1 for the root's children *)
Level(i) == Depth(i) + 1

(* C13: no entry more than max_depth levels below the root has a line; a
   directory shown at level max_depth has exactly one line of its own, the
   ellipsis line right below its entry line, none of its children is shown,
   and the render never lists it. *)
C13_EllipsisAtMaxDepth ==
    req.mode = "tree" =>
      /\ \A i \in ShownNodes : Level(i) <= req.max_depth
      /\ \A k \in 1..Len(listed) : listed[k].dir # 0 =>
            Level(listed[k].dir) < req.max_depth
      /\ RenderDone =>
            \A i \in ShownNodes :
               (IsDir(i) /\ Level(i) = req.max_depth) =>
                  /\ Cardinality({n \in 1..Len(lines) : lines[n].dir = i}) = 1
                  /\ lines[EntryLine(i) + 1].dir = i
                  /\ lines[EntryLine(i) + 1].text =
                        LinePrefix(EntryLine(i) + 1) \o <<"L-- ...">>
                  /\ ChildSet(i) \cap ShownNodes = {}

(* A finished render that shows, at level max_depth, a listable directory
   with a child, and below the root a level it does not reach *)
C13_Witness ==
    /\ RenderDone
    /\ \E i \in ShownNodes :
          /\ IsDir(i) /\ Level(i) = req.max_depth /\ Listable(i)
          /\ ChildSet(i) # {}
    /\ req.max_depth > 1

-----------------------------------------------------------------------------
(* Properties of the name matcher *)

(* A pattern character against a name character: ? is any character *)
CharFits(pc, c) == pc = "?" \/ pc = c

(* A glob of at most one * against a whole name: the part before the * fits
   the head of the name and the part after it fits the tail, character by
   character; without a * the lengths are equal. *)
WholeNameFits(p, nm) ==
    LET stars == {k \in 1..Len(p) : p[k] = "*"} IN
    IF stars = {}
    THEN Len(nm) = Len(p) /\ \A k \in 1..Len(p) : CharFits(p[k], nm[k])
    ELSE LET st == CHOOSE k \in stars : TRUE
             post == Len(p) - st
         IN /\ Len(nm) >= (st - 1) + post
            /\ \A k \in 1..(st - 1) : CharFits(p[k], nm[k])
            /\ \A k \in 1..post : CharFits(p[st + k], nm[Len(nm) - post + k])

(* Whether the name search is to match the entry *)
NameFits(i) ==
    IF req.case_sensitive
    THEN WholeNameFits(req.pattern, tree[i].name)
    ELSE WholeNameFits(Lower(req.pattern), Lower(tree[i].name))

NamesAtRoot == {tree[i].name : i \in {j \in Nodes : tree[j].parent = 0}}

(* C14: a tested entry is returned if and only if the glob matches its whole
   base name, name and pattern lower-cased unless case_sensitive, and a
   finished search has tested every entry; so *.txt over a.txt, b.TXT and
   c.md returns two results without regard to case and a.txt alone with
   case_sensitive. *)
C14_WholeNameGlobMatch ==
    req.mode = "name" =>
      /\ \A i \in TestedNodes : (i \in ResultNodes) <=> NameFits(i)
      /\ \A k \in 1..Len(results) :
            Cardinality({m \in 1..Len(results) : results[m].node = results[k].node}) = 1
      /\ outcome = "ok" =>
            /\ TestedNodes = Nodes
            /\ (/\ req.pattern = <<"*", ".", "t", "x", "t">>
                /\ Len(tree) = 3
                /\ NamesAtRoot = { <<"a", ".", "t", "x", "t">>, <<"b", ".", "T", "X", "T">>,
                                   <<"c", ".", "m", "d">> })
               => IF req.case_sensitive
                  THEN /\ Len(results) = 1
                       /\ results[1].name = <<"a", ".", "t", "x", "t">>
                  ELSE Len(results) = 2

(* The finished search for *.txt without regard to case over a.txt, b.TXT
   and c.md, with its two results *)
C14_Witness ==
    /\ req.mode = "name" /\ outcome = "ok" /\ ~req.case_sensitive
    /\ req.pattern = <<"*", ".", "t", "x", "t">>
    /\ Len(tree) = 3
    /\ NamesAtRoot = { <<"a", ".", "t", "x", "t">>, <<"b", ".", "T", "X", "T">>,
                       <<"c", ".", "m", "d">> }
    /\ Len(results) = 2

-----------------------------------------------------------------------------
(* Properties of the content search *)

ContentDone == req.mode = "content" /\ phase = "done" /\ outcome = "ok"

(* Whether the searched text stands at the 0-based index k of the content,
   letter case ignored unless the search is case sensitive *)
OccursAt(content, k) ==
    /\ k + Len(req.text) <= Len(content)
    /\ \A j \in 1..Len(req.text) :
         IF req.case_sensitive THEN content[k + j] = req.text[j]
         ELSE LowerChar(content[k + j]) = LowerChar(req.text[j])

Occurrences(content) == {k \in 0..Len(content) : OccursAt(content, k)}

FirstOccurrence(content) ==
    CHOOSE k \in Occurrences(content) : \A m \in Occurrences(content) : k <= m

(* The content from at most ContextChars characters before the first match
   to at most ContextChars characters after it *)
WindowOfFirstMatch(content) ==
    LET k == FirstOccurrence(content)
        from == IF k > ContextChars THEN k - ContextChars ELSE 0
        to == Min(Len(content), k + Len(req.text) + ContextChars)
    IN SubSeq(content, from + 1, to)

(* C15: for every file the content search reports, match_context is the
   file's content from the first match of the searched text, with the 40
   characters before it and the 40 characters after it, fewer only where the
   file begins or ends (newlines read as spaces). *)
C15_ContextIsWindowOfFirstMatch ==
    ContentDone =>
        \A k \in 1..Len(results) :
            LET content == read_text(results[k].node) IN
            /\ Occurrences(content) # {}
            /\ ~IsNone(results[k].match_context)
            /\ ReplaceNewlines(Val(results[k].match_context))
                 = ReplaceNewlines(WindowOfFirstMatch(content))

(* C16: no match_context of a content search holds a newline, whichever
   implementation ran the search. *)
C16_NoNewlineInContext ==
    ContentDone =>
        \A k \in 1..Len(results) :
            ~IsNone(results[k].match_context)
                => Newline \notin SeqToSet(Val(results[k].match_context))

(* C17: a file whose bytes do not decode as text is never among the results
   of a content search. *)
C17_UndecodableFileNeverReported ==
    ContentDone =>
        \A k \in 1..Len(results) :
            BadByte \notin SeqToSet(tree[results[k].node].text)

-----------------------------------------------------------------------------
(* Properties of the recent-files search *)

RecentDone == req.mode = "recent" /\ phase = "done" /\ outcome = "ok"

(* The start directory holds one file and nothing else, the file's name
   matches file_pattern and it was last modified at time m *)
OnlyFileModifiedAt(m) ==
    /\ Len(tree) = 1
    /\ IsFile(1)
    /\ GlobMatch(req.file_pattern, tree[1].name)
    /\ tree[1].mtime = m

(* C18 as claimed: with days = 0 no file modified a day before the call is
   returned, and a file modified a moment before the call is returned: it is
   the one result when it is the only file. *)
C18_DayOldOutMomentOldIn ==
    (RecentDone /\ req.days = 0) =>
        /\ \A k \in 1..Len(results) : tree[results[k].node].mtime # req.now - req.day
        /\ OnlyFileModifiedAt(req.now - 1) => Len(results) = 1

(* C18 amended: with days = 0 the cutoff is the instant of the call.  No
   entry modified before the call is returned, neither a day before nor a
   moment before (no result when such a file is the only one); a file
   modified at the instant of the call is returned. *)
C18_OnlyFromTheCallOn ==
    (RecentDone /\ req.days = 0) =>
        /\ \A k \in 1..Len(results) : tree[results[k].node].mtime >= req.now
        /\ (OnlyFileModifiedAt(req.now - req.day) \/ OnlyFileModifiedAt(req.now - 1))
              => results = << >>
        /\ OnlyFileModifiedAt(req.now) => Len(results) = 1

C18_Witness ==
    RecentDone /\ req.days = 0 /\ OnlyFileModifiedAt(req.now - 1) /\ results = << >>

(* C19: every entry the recent-files search returns is a regular file, its
   name matches file_pattern and its modified time is not earlier than
   now - days. *)
C19_OnlyRecentMatchingFiles ==
    RecentDone =>
        \A k \in 1..Len(results) :
            LET i == results[k].node IN
            /\ IsFile(i)
            /\ GlobMatch(req.file_pattern, tree[i].name)
            /\ tree[i].mtime >= req.now - req.days * req.day

(* C20: the recent-files search returns at most max_results entries, newest
   first, whichever implementation ran it. *)
C20_AtMostMaxResultsNewestFirst ==
    RecentDone =>
        /\ Len(results) <= req.max_results
        /\ \A k \in 1..(Len(results) - 1) : results[k].modified >= results[k + 1].modified

-----------------------------------------------------------------------------
(* Properties of the attribute matcher *)

AttrDone == req.mode = "attr" /\ phase = "done" /\ outcome = "ok"

TypeName(i) == IF IsDir(i) THEN "directory" ELSE "file"

(* The extension e of the allow-list with its leading dot *)
DotExt(e) == IF e # << >> /\ Head(e) = "." THEN e ELSE <<".">> \o e

(* The constraints on type, size and extension, each holding when absent;
   size and extension restrict files only *)
KindConstraintsHold(i) ==
    /\ ~IsNone(req.file_type) => TypeName(i) = Val(req.file_type)
    /\ (IsFile(i) /\ ~IsNone(req.min_size)) => tree[i].size >= Val(req.min_size)
    /\ (IsFile(i) /\ ~IsNone(req.max_size)) => tree[i].size <= Val(req.max_size)
    /\ (IsFile(i) /\ ~IsNone(req.extensions)) =>
          \E e \in Val(req.extensions) : Lower(Suffix(tree[i].name)) = Lower(DotExt(e))

(* The four date bounds, each holding when absent, the bound itself allowed *)
DateConstraintsHold(i) ==
    /\ ~IsNone(req.created_after) => tree[i].ctime >= Val(req.created_after)
    /\ ~IsNone(req.created_before) => tree[i].ctime <= Val(req.created_before)
    /\ ~IsNone(req.modified_after) => tree[i].mtime >= Val(req.modified_after)
    /\ ~IsNone(req.modified_before) => tree[i].mtime <= Val(req.modified_before)

(* C21: search_by_attributes returns an entry exactly when the entry
   satisfies every supplied constraint; an absent constraint excludes
   nothing, and a non-file entry is judged without the size range and the
   extension allow-list. *)
C21_ReturnedIffEveryConstraintHolds ==
    AttrDone =>
        \A i \in Nodes :
            i \in ResultNodes <=> (KindConstraintsHold(i) /\ DateConstraintsHold(i))

C21_Witness ==
    /\ AttrDone
    /\ ~IsNone(req.min_size) /\ ~IsNone(req.extensions) /\ ~IsNone(req.created_after)
    /\ \E i, j \in Nodes : /\ IsDir(i) /\ i \in ResultNodes
                           /\ IsFile(j) /\ j \notin ResultNodes
                           /\ tree[j].ctime >= Val(req.created_after)

(* An entry whose created or modified time is one of the supplied bounds *)
OnAfterBound(i) ==
    \/ ~IsNone(req.created_after) /\ tree[i].ctime = Val(req.created_after)
    \/ ~IsNone(req.modified_after) /\ tree[i].mtime = Val(req.modified_after)
OnBeforeBound(i) ==
    \/ ~IsNone(req.created_before) /\ tree[i].ctime = Val(req.created_before)
    \/ ~IsNone(req.modified_before) /\ tree[i].mtime = Val(req.modified_before)

(* C22 as claimed: an entry whose time equals an 'after' bound is accepted
   when the other constraints hold, and an entry whose time equals a
   'before' bound is rejected. *)
C22_AfterInclusiveBeforeExclusive ==
    AttrDone =>
        \A i \in Nodes :
            /\ OnBeforeBound(i) => i \notin ResultNodes
            /\ (OnAfterBound(i) /\ ~OnBeforeBound(i)
                   /\ KindConstraintsHold(i) /\ DateConstraintsHold(i)) => i \in ResultNodes

(* C22 amended: the date bounds are inclusive on both sides.  An entry whose
   created or modified time equals a supplied bound, 'after' or 'before', is
   accepted when every other constraint holds, and rejected only for
   another constraint. *)
C22_BoundsInclusiveOnBothSides ==
    AttrDone =>
        \A i \in Nodes :
            (OnAfterBound(i) \/ OnBeforeBound(i)) =>
                (i \in ResultNodes <=> (KindConstraintsHold(i) /\ DateConstraintsHold(i)))

C22_Witness ==
    /\ AttrDone
    /\ \E i \in ResultNodes :
          /\ ~IsNone(req.created_before) /\ tree[i].ctime = Val(req.created_before)
          /\ ~IsNone(req.modified_before) /\ tree[i].mtime = Val(req.modified_before)

-----------------------------------------------------------------------------
(* Properties of the search by size *)

(* C23: the search by size completes without error and returns at most
   max_results entries, each a file whose size is within the bounds supplied
   and whose extension is in the allow-list if one is given, the largest
   first. *)
C23_SizeSearchSortedFilesNoError ==
    (req.mode = "size" /\ phase = "done") =>
        /\ outcome = "ok"
        /\ Len(results) <= req.max_results
        /\ \A k \in 1..Len(results) :
              /\ results[k].type = "file"
              /\ ~IsNone(results[k].size)
              /\ IsNone(req.min_size) \/ Val(results[k].size) >= Val(req.min_size)
              /\ IsNone(req.max_size) \/ Val(results[k].size) <= Val(req.max_size)
              /\ ~IsNone(req.extensions) =>
                    \E e \in Val(req.extensions) :
                        Lower(Suffix(results[k].name)) = Lower(DotExt(e))
        /\ \A k \in 1..(Len(results) - 1) : Val(results[k].size) >= Val(results[k + 1].size)

-----------------------------------------------------------------------------
(* Properties of the collection of files and of the thread pool *)

(* The files the content matcher accepts: small enough, named as
   file_pattern asks, readable and holding the searched text *)
ContentMatches ==
    { i \in Nodes :
        /\ IsFile(i)
        /\ tree[i].size <= Val(req.max_size)
        /\ GlobMatch(req.file_pattern, tree[i].name)
        /\ tree[i].ok
        /\ Occurrences(read_text(i)) # {} }

(* C24: when at most max_results files under the start directory, at any
   depth, are accepted by the content matcher, the content search returns
   every one of them. *)
C24_EveryMatchingFileReturned ==
    (ContentDone /\ Cardinality(ContentMatches) <= req.max_results) =>
        ContentMatches \subseteq ResultNodes

(* C25: whatever the order in which the workers of the pool run, the result
   list of the content search never holds more than max_results entries and
   never holds a file twice. *)
C25_CapAndNoDuplicateUnderThreads ==
    req.mode = "content" =>
        /\ Len(results) <= req.max_results
        /\ \A j, k \in 1..Len(results) : results[j].node = results[k].node => j = k

(* The result list is full while a worker has found one more matching file *)
C25_Witness ==
    /\ req.mode = "content"
    /\ Len(results) = req.max_results
    /\ \E k \in 1..Len(futures) :
          /\ futures[k].state = "done"
          /\ ~IsNone(futures[k].result)
          /\ Val(futures[k].result).node \notin ResultNodes

(* The files of the batch the content matcher accepts, in the order of the
   batch, up to max_results of them *)
ExpectedResults ==
    LET hits == SelectSeq(files_to_check, LAMBDA i : i \in ContentMatches)
    IN SubSeq(hits, 1, Min(Len(hits), req.max_results))

(* C27: the utility content search returns the matching files in the order
   in which the walk collected them, whatever the order in which the workers
   finish: its list is fixed by the tree and the request. *)
C27_ResultsInCollectionOrder ==
    (ContentDone /\ req.impl = "utils") =>
        [k \in 1..Len(results) |-> results[k].node] = ExpectedResults

(* Two files returned though a worker finished ahead of an earlier file's *)
C27_Witness ==
    ContentDone /\ req.impl = "utils" /\ overtook /\ Len(results) >= 2

-----------------------------------------------------------------------------
(* Properties of the order of the name search *)

NameDone == req.mode = "name" /\ phase = "done" /\ outcome = "ok"

(* The directories the walk has listed, or tried to *)
WalkListed == {listed[k].dir : k \in {m \in 1..Len(listed) : listed[m].by = "walk"}}

(* The directories the walk can get to whose children are within the depth
   limit *)
DirsWithinLimit ==
    { d \in Nodes :
        /\ IsDir(d)
        /\ Reachable(d)
        /\ (IsNone(req.max_depth) \/ ChildDepth(d) <= Val(req.max_depth)) }

(* The results are in discovery order: a directory before every entry
   beneath it, siblings in listing order, and the whole list in the
   pre-order of the tree, which is the order of the entries' numbers *)
ResultsInPreOrder ==
    \A j, k \in 1..Len(results) :
        LET a == results[j].node
            b == results[k].node
        IN /\ a \in Ancestors(b) => j < k
           /\ (tree[a].parent = tree[b].parent /\ a < b) => j < k
           /\ j < k => a < b

(* C26 as claimed: the matches come in discovery order, and the walk has
   descended into every directory within the depth limit, whether its name
   matched or not. *)
C26_PreOrderAndEveryDirectoryEntered ==
    NameDone => (ResultsInPreOrder /\ DirsWithinLimit \subseteq WalkListed)

(* C26 amended: the matches come in discovery order, and the walk has
   descended into every directory within the depth limit, whether its name
   matched or not, unless the result list was full: a directory is left out
   only by a search that returns max_results entries or more. *)
C26_PreOrderAndDescentBelowCap ==
    NameDone =>
        /\ ResultsInPreOrder
        /\ Len(results) < req.max_results => DirsWithinLimit \subseteq WalkListed
        /\ \A d \in WalkListed : d # 0 => d \in DirsWithinLimit

(* A directory that does not match was entered, and below it a matching
   directory was returned before a matching entry of its own *)
C26_Witness ==
    /\ NameDone
    /\ \E d \in WalkListed :
          /\ d # 0 /\ ~match_name(tree[d].name)
          /\ \E j, k \in 1..Len(results) :
                /\ j < k
                /\ d \in Ancestors(results[j].node)
                /\ results[j].node \in Ancestors(results[k].node)

-----------------------------------------------------------------------------
(* Completeness of the utility recent-files search *)

(* The regular files whose name matches file_pattern and that were modified
   within the last days *)
RecentMatches ==
    { i \in Nodes :
        /\ tree[i].kind = "file"
        /\ GlobMatch(req.file_pattern, tree[i].name)
        /\ tree[i].mtime >= req.now - req.days * req.day }

(* C28: when at most max_results regular files under the start directory
   match file_pattern and were modified within the last days, the utility
   recent-files search returns every one of them, however many other
   entries were modified within that time. *)
C28_RecentCompleteUpToCap ==
    (RecentDone /\ req.impl = "utils" /\ Cardinality(RecentMatches) <= req.max_results) =>
        RecentMatches \subseteq ResultNodes

-----------------------------------------------------------------------------
(* Termination *)

(* C29: over a finite tree without symbolic links every walk (by name, by
   attributes, recent, duplicates) and the tree render end and return,
   whatever max_depth and max_results are and whichever directories refuse
   to list. *)
C29_EveryWalkReturns == <>(phase = "done" /\ outcome = "ok")

(* A walk without depth limit has returned after a directory refused to
   list *)
C29_Witness ==
    /\ phase = "done" /\ outcome = "ok"
    /\ req.mode \in {"name", "attr", "recent", "dup"}
    /\ IsNone(req.max_depth)
    /\ \E k \in 1..Len(listed) : ~listed[k].ok
    /\ \E i \in Nodes : Depth(i) >= 1

-----------------------------------------------------------------------------
(* rename, move and copy.  A path is the sequence of names that leads from
   the start directory to the entry; << >> is the start directory itself. *)

(* Path.parent and Path.name *)
PathParent(p) == SubSeq(p, 1, Len(p) - 1)
PathName(p) == p[Len(p)]

(* The entry a path leads to in the filesystem t: 0 for the start directory,
   -1 when a name is missing or a name before the last is no directory *)
RECURSIVE Resolve(_, _)
Resolve(t, p) ==
    IF p = << >> THEN 0
    ELSE LET d == Resolve(t, PathParent(p))
             hits == { i \in 1..Len(t) : t[i].parent = d /\ t[i].name = PathName(p) }
         IN IF d = -1 \/ (d # 0 /\ t[d].kind # "dir") \/ hits = {} THEN -1
            ELSE CHOOSE i \in hits : TRUE

(* Path.exists() *)
PathExists(t, p) == Resolve(t, p) # -1

(* Path.is_dir() *)
PathIsDir(t, p) == Resolve(t, p) = 0 \/ (PathExists(t, p) /\ t[Resolve(t, p)].kind = "dir")

(* The destination counts as taken only when a file is there *)
DestinationExistsAsFile(t, p) == PathExists(t, p) /\ ~PathIsDir(t, p)

(* if final_dest.exists() / if new_path.exists() *)
DestinationExists(t, p) == PathExists(t, p)

(* new_path = path.parent / new_name *)
new_path(path, new_name) == Append(PathParent(path), new_name)

(* final_dest: inside the destination when it is an existing directory,
   under the name of the source *)
final_dest(t, source, destination) ==
    IF PathExists(t, destination) /\ PathIsDir(t, destination)
      THEN Append(destination, PathName(source))
      ELSE destination

(* A directory made by mkdir or makedirs *)
NewDir(d, nm) ==
    [parent |-> d, kind |-> "dir", name |-> nm, size |-> 0, ctime |-> 1, mtime |-> 1,
     text |-> << >>, ok |-> TRUE]

(* Path.mkdir(parents=True, exist_ok=True) on p: the missing directories
   down to p are made; a file in the way raises and nothing is made *)
RECURSIVE Mkdirs(_, _)
Mkdirs(t, p) ==
    IF PathExists(t, p) THEN [tree |-> t, ok |-> PathIsDir(t, p)]
    ELSE LET up == Mkdirs(t, PathParent(p))
         IN IF ~up.ok THEN [tree |-> t, ok |-> FALSE]
            ELSE [tree |-> Append(up.tree, NewDir(Resolve(up.tree, PathParent(p)), PathName(p))),
                  ok |-> TRUE]

(* Whether entry i is the directory d or lies below it *)
RECURSIVE Within(_, _, _)
Within(t, i, d) ==
    IF i = d THEN TRUE ELSE IF i <= 0 THEN FALSE ELSE Within(t, t[i].parent, d)

(* shutil.move(source, final_dest) of entry i to a free path: it raises when
   the directory that is to hold it is missing or is no directory, and when
   a directory is to go below itself *)
Move(t, i, final) ==
    LET d == Resolve(t, PathParent(final))
    IN IF ~PathIsDir(t, PathParent(final)) \/ Within(t, d, i)
         THEN [tree |-> t, ok |-> FALSE]
         ELSE [tree |-> [t EXCEPT ![i].parent = d, ![i].name = PathName(final)], ok |-> TRUE]

(* shutil.copytree: the copy of entry i of the filesystem before the call is
   appended to t under the directory d with the name nm, and below it the
   copies of the entries that i held before the call *)
RECURSIVE CopyNode(_, _, _, _)
RECURSIVE CopyKids(_, _, _)
CopyNode(t, i, d, nm) ==
    CopyKids(Append(t, [tree[i] EXCEPT !.parent = d, !.name = nm]), Children(i), Len(t) + 1)
CopyKids(t, kids, d) ==
    IF kids = << >> THEN t
    ELSE CopyKids(CopyNode(t, Head(kids), d, tree[Head(kids)].name), Tail(kids), d)

(* shutil.copytree for a directory, which makes the missing directories
   above final_dest, and shutil.copy2 for a file, which does not *)
Copy(t, i, final) ==
    IF tree[i].kind = "dir"
      THEN LET made == Mkdirs(t, PathParent(final))
           IN IF ~made.ok THEN [tree |-> t, ok |-> FALSE]
              ELSE [tree |-> CopyNode(made.tree, i, Resolve(made.tree, PathParent(final)),
                                      PathName(final)),
                    ok |-> TRUE]
      ELSE IF ~PathIsDir(t, PathParent(final)) THEN [tree |-> t, ok |-> FALSE]
           ELSE [tree |-> Append(t, [tree[i] EXCEPT !.parent = Resolve(t, PathParent(final)),
                                                    !.name = PathName(final)]),
                 ok |-> TRUE]

(* final_dest.parent.mkdir(parents=True, exist_ok=True) of the route and of
   the tool; the utility function has no such call *)
MakeParents(t, final) ==
    IF req.impl = "utils" THEN [tree |-> t, ok |-> TRUE] ELSE Mkdirs(t, PathParent(final))

(* rename_item, the same steps in the utility function, the route and the
   tool *)
RenameItem ==
    /\ phase = "idle"
    /\ req.mode = "rename"
    /\ IF ~PathExists(tree, req.path)
         THEN outcome' = "not_found" /\ UNCHANGED tree
         ELSE IF DestinationExists(tree, new_path(req.path, req.new_name))
         THEN outcome' = "conflict" /\ UNCHANGED tree
         ELSE /\ outcome' = "ok"
              /\ tree' = [tree EXCEPT ![Resolve(tree, req.path)].name = req.new_name]
    /\ phase' = "done"
    /\ UNCHANGED <<rootKind, req, stack>>
    /\ UNCHANGED searchVars
    /\ UNCHANGED renderVars
    /\ UNCHANGED poolVars

(* move_item *)
MoveItem ==
    /\ phase = "idle"
    /\ req.mode = "move"
    /\ LET final == final_dest(tree, req.path, req.destination)
           made == MakeParents(tree, final)
           moved == Move(made.tree, Resolve(tree, req.path), final)
       IN IF ~PathExists(tree, req.path)
            THEN outcome' = "not_found" /\ UNCHANGED tree
            ELSE IF DestinationExists(tree, final)
            THEN outcome' = "conflict" /\ UNCHANGED tree
            ELSE IF ~made.ok
            THEN outcome' = "error" /\ UNCHANGED tree
            ELSE /\ outcome' = IF moved.ok THEN "ok" ELSE "error"
                 /\ tree' = moved.tree
    /\ phase' = "done"
    /\ UNCHANGED <<rootKind, req, stack>>
    /\ UNCHANGED searchVars
    /\ UNCHANGED renderVars
    /\ UNCHANGED poolVars

(* copy_item *)
CopyItem ==
    /\ phase = "idle"
    /\ req.mode = "copy"
    /\ LET final == final_dest(tree, req.path, req.destination)
           made == MakeParents(tree, final)
           copied == Copy(made.tree, Resolve(tree, req.path), final)
       IN IF ~PathExists(tree, req.path)
            THEN outcome' = "not_found" /\ UNCHANGED tree
            ELSE IF DestinationExists(tree, final)
            THEN outcome' = "conflict" /\ UNCHANGED tree
            ELSE IF ~made.ok
            THEN outcome' = "error" /\ UNCHANGED tree
            ELSE /\ outcome' = IF copied.ok THEN "ok" ELSE "error"
                 /\ tree' = copied.tree
    /\ phase' = "done"
    /\ UNCHANGED <<rootKind, req, stack>>
    /\ UNCHANGED searchVars
    /\ UNCHANGED renderVars
    /\ UNCHANGED poolVars

MoveNodes == 3

(* The names a and b *)
MoveNames == { <<"a">>, <<"b">> }

(* The entries that may follow the prefix t: a file or a directory with a
   name none of its siblings has; the content of a file tells it from every
   other file *)
MoveNextEntries(t) ==
    LET choices ==
          { c \in OpenDirs(t) \X {"file", "dir"} \X MoveNames :
              \A j \in 1..Len(t) : t[j].parent # c[1] \/ t[j].name # c[3] }
    IN { [parent |-> c[1], kind |-> c[2], name |-> c[3],
          size |-> IF c[2] = "file" THEN 1 ELSE 0, ctime |-> 1, mtime |-> 1,
          text |-> IF c[2] = "file" THEN Digits(Len(t) + 1) ELSE << >>, ok |-> TRUE] :
           c \in choices }

RECURSIVE GrowMoveTrees(_, _, _)
GrowMoveTrees(grown, acc, n) ==
    IF n = 0 \/ grown = {} THEN acc
    ELSE LET larger == UNION { { Append(t, e) : e \in MoveNextEntries(t) } : t \in grown }
         IN GrowMoveTrees(larger, acc \cup larger, n - 1)

MoveTrees(n) == GrowMoveTrees({<< >>}, {<< >>}, n)

(* The paths of one and of two names *)
SourcePaths == { <<n>> : n \in MoveNames } \cup { <<n, m>> : n \in MoveNames, m \in MoveNames }

(* A rename to a name, and a move and a copy to a path or to the start
   directory, each by the utility function, the route and the tool *)
MoveReqs ==
    { [mode |-> "rename", impl |-> im, path |-> p, new_name |-> n, destination |-> << >>] :
        im \in {"utils", "route", "tool"}, p \in SourcePaths, n \in MoveNames }
    \cup
    { [mode |-> md, impl |-> im, path |-> p, new_name |-> << >>, destination |-> d] :
        md \in {"move", "copy"}, im \in {"utils", "route", "tool"}, p \in SourcePaths,
        d \in SourcePaths \cup {<< >>} }

InitMove ==
    /\ rootKind = "dir"
    /\ tree \in MoveTrees(MoveNodes)
    /\ req \in MoveReqs
    /\ phase = "idle"
    /\ outcome = "none"
    /\ stack = << >>
    /\ results = << >>
    /\ listed = << >>
    /\ tested = << >>
    /\ raised = FALSE
    /\ groups = << >>
    /\ lines = << >>
    /\ shown_item_count = 0
    /\ outputs = << >>
    /\ files_to_check = << >>
    /\ futures = << >>
    /\ consumed = 0
    /\ overtook = FALSE

NextMove == RenameItem \/ MoveItem \/ CopyItem

SpecMove == InitMove /\ [][NextMove]_vars

-----------------------------------------------------------------------------
(* Destination conflicts *)

(* The final destination of the request: parent/new_name for a rename,
   destination/source-name when the destination of a move or a copy is an
   existing directory, and the destination itself otherwise *)
FinalDestination ==
    IF req.mode = "rename" THEN Append(PathParent(req.path), req.new_name)
    ELSE IF PathIsDir(tree, req.destination)
    THEN Append(req.destination, PathName(req.path))
    ELSE req.destination

(* C30: a rename, a move or a copy of an existing source whose final
   destination already exists reports the destination conflict and leaves
   the filesystem as it was: the source is still there, the entry at the
   destination is untouched and no directory has been made. *)
C30_ConflictLeavesFilesystemUnchanged ==
    [][ (phase = "idle" /\ PathExists(tree, req.path) /\ PathExists(tree, FinalDestination))
          => (outcome' = "conflict" /\ tree' = tree) ]_vars

(* The route has refused to move an entry into a directory that holds an
   entry of that name *)
C30_Witness ==
    /\ phase = "done" /\ outcome = "conflict"
    /\ req.mode = "move" /\ req.impl = "route"
    /\ req.destination # << >>
    /\ PathIsDir(tree, req.destination)
    /\ PathExists(tree, Append(req.destination, PathName(req.path)))
    /\ Resolve(tree, req.path) # Resolve(tree, Append(req.destination, PathName(req.path)))

====
